---------------------------- MODULE Spec2Model ----------------------------
(***************************************************************************)
(* A model of the STL slicer of M2PY (src/JM_slicer): the text mesh        *)
(* loader, the plane slicer, the path stitcher (LineMap / path_lines) and  *)
(* the layering driver (command_line).                                     *)
(*                                                                         *)
(* Numbers.  The program computes with floats.  A coordinate of the model  *)
(* is a natural number c in fixed point: it stands for the float           *)
(*     (c \div Fine) + (c % Fine) * 2^-40 ,                                *)
(* a whole number of units plus a perturbation of a few 2^-40, which is    *)
(* the size of the rounding noise the endpoint keys are there to absorb.   *)
(* Every mesh of the model has whole coordinates and is chosen so that the *)
(* slicer's interpolation is exact in floating point; perturbed points     *)
(* occur only as inputs of the path stitcher.                              *)
(***************************************************************************)
EXTENDS Integers, Sequences, FiniteSets, TLC

VARIABLES
    \* ---- path stitcher (path_lines and its LineMap) ----
    lines,      \* the argument of path_lines: a sequence of 2-point lines
    obj,        \* obj[i]: the current value of the list object lines[i]
    map,        \* LineMap._map: endpoint key -> sequence of line objects (ids)
    path,       \* the list object path_lines is extending (an id, 0: none)
    paths,      \* the list path_lines returns: a sequence of list objects (ids)
    spc,        \* where path_lines stands, or the exception that ended it
    \* ---- layering driver (command_line) ----
    mesh,       \* the scaled facets handed to z_sort_facets
    minz,       \* the lowest Z of the scaled mesh, as scale_to_fit returned it
    maxz,       \* the highest Z of the scaled mesh, as scale_to_fit returned it
    thickness,  \* the layer thickness
    maxz_facets,\* the Z-sorted candidate list, pruned layer by layer
    z,          \* the height of the current plane
    layer,      \* the 1-based layer index
    paths_all,  \* the list command_line returns
    writer,     \* the writer as the driver sees it: open arguments and calls
    dpc,        \* where command_line stands
    \* ---- text mesh loader (parseText / readFacet) ----
    dev,        \* how the stream was made: a well-formed text and one deviation
    f,          \* the lines of the stream not yet read
    line,       \* the line last read, stripped
    name,       \* the solid's name taken from the header line
    facets,     \* the facets parsed so far
    facet,      \* the vertices of the facet being read
    ppc,        \* where the parser stands, or the exception that ended it
    perr,       \* the token the ValueError's message says was expected
    \* ---- binary mesh loader (parseBin) ----
    bsrc,       \* how the stream was made: the count field and the length in bytes
    bstream,    \* the bytes of the stream not yet read
    count,      \* the unpacked facet count
    bi,         \* the index i of the facet loop
    bfacets,    \* the facets read so far
    bpc,        \* where parseBin stands, or the exception that ended it
    \* ---- scale transform (scale_to_fit) ----
    sarg,       \* the arguments of scale_to_fit: facets, width, height, scale
    sret,       \* what scale_to_fit returned
    sret2,      \* what it returned when applied to what it had returned
    scpc,       \* where the two applications stand, or the exception raised
    \* ---- printer control (Makergear, file_read) ----
    printout,   \* self.printout: 1 serial port, 0 path file (-1: no object)
    self_coord_sys, \* what self.coord_sys evaluates to: the method or a string
    coords,     \* self.coords
    channel_status, \* self.channel_status
    current_tool,   \* self.current_tool
    tool_coords,    \* self.tool_coords
    handle,     \* the port or file: what was written and read, lines to come
    read,       \* the line readline() returned last
    todo,       \* the calls and statements still to run, the next one first
    called,     \* the calls made on the object so far
    gpc         \* where the caller stands, or the exception that ended it

stitchVars == <<lines, obj, map, path, paths, spc>>
driverVars == <<mesh, minz, maxz, thickness, maxz_facets, z, layer, paths_all, writer, dpc>>
parseVars  == <<dev, f, line, name, facets, facet, ppc, perr>>
binVars    == <<bsrc, bstream, count, bi, bfacets, bpc>>
scaleVars  == <<sarg, sret, sret2, scpc>>
gearVars   == <<printout, self_coord_sys, coords, channel_status, current_tool,
                tool_coords, handle, read, todo, called, gpc>>
vars == <<stitchVars, driverVars, parseVars, binVars, scaleVars, gearVars>>

(***************************************************************************)
(* Bounds of the model.                                                    *)
(***************************************************************************)
Fine == 2           \* fixed-point steps per unit
MaxLines == 4       \* longest input of path_lines drawn on its own
MaxThickness == 5   \* largest layer thickness, in units
MaxSteps == 2       \* most steps of the plane inside a mesh
MaxFacets == 2      \* most facet blocks of a text mesh
MaxSliceZ == 2      \* highest Z, in units, of a facet sliced on its own
MaxCount == 2       \* largest facet count of a binary mesh
MaxCalls == 2       \* most calls made on a Makergear object
MaxFileLines == 2   \* most lines of a file handed to file_read
MaxTyped == 3       \* most commands typed at the prompt

\* The positions of a point's coordinates (X, Y, Z = 0, 1, 2 in the program,
\* whose tuples count from 0; a sequence counts from 1).
X == 1
Y == 2
Z == 3

Unit(n) == n * Fine

Min2(a, b) == IF a <= b THEN a ELSE b
Max2(a, b) == IF a >= b THEN a ELSE b

RemoveAt(s, i) == SubSeq(s, 1, i - 1) \o SubSeq(s, i + 1, Len(s))

(***************************************************************************)
(* LineMap.key: '{0:.10},{1:.10}' formatted with the point, that is the    *)
(* two coordinates to 10 significant digits.  A perturbation of a few 2^-40 is   *)
(* below the tenth digit of any value >= 1 and is rounded away; next to    *)
(* zero the digits are relative, so 0 and k * 2^-40 format differently.    *)
(***************************************************************************)
Format10(c) == IF c < Fine THEN c ELSE (c \div Fine) * Fine

key(point) == <<Format10(point[X]), Format10(point[Y])>>

(***************************************************************************)
(* LineMap: the endpoint registry of the path stitcher.  A line is a       *)
(* Python list object; the registry, path_lines' path and its result hold  *)
(* references to these objects, so a line is known here by its index in    *)
(* the input and obj gives each object's current value.                    *)
(***************************************************************************)
EmptyMap == [k \in {} |-> <<>>]

\* map.setdefault(k, []).append(line)
Register(m, k, id) ==
    IF k \in DOMAIN m
    THEN [m EXCEPT ![k] = Append(@, id)]
    ELSE [kk \in DOMAIN m \cup {k} |-> IF kk = k THEN <<id>> ELSE m[kk]]

\* LineMap.__init__: every line is appended to the bucket of each of its points.
RECURSIVE LineMapInit(_, _, _)
LineMapInit(ls, i, m) ==
    IF i > Len(ls) THEN m
    ELSE LineMapInit(ls, i + 1,
                     Register(Register(m, key(ls[i][1]), i), key(ls[i][2]), i))

has_lines(m) == DOMAIN m # {}

\* del self._map[k]
DelKey(m, k) == [kk \in DOMAIN m \ {k} |-> m[kk]]

\* line = lines.pop(); if len(lines) == 0: del self._map[key]
PopLast(m, k) ==
    IF Len(m[k]) = 1 THEN DelKey(m, k)
    ELSE [m EXCEPT ![k] = SubSeq(@, 1, Len(@) - 1)]

\* LineMap._pop_other_line(key, line) on the registry m, with the objects' values
\* o: the exception it raises ("" for none), the registry it leaves (when it
\* raises: the registry as it was handed, the caller having popped the line
\* already) and the point it returns.  lines.remove(line) removes the first
\* element EQUAL to line.
pop_other_line(m, k, id, o) ==
    LET ln == o[id]
        others == {i \in 1..Len(ln) : key(ln[i]) # k}
    IN  IF others = {}
        THEN [exc |-> "UnboundLocalError", map |-> m, point |-> <<>>]
        ELSE
          LET other_point == ln[CHOOSE i \in others : \A j \in others : i <= j]
              k2 == key(other_point)
          IN  IF k2 \notin DOMAIN m
              THEN [exc |-> "KeyError", map |-> m, point |-> other_point]
              ELSE
                LET equal == {j \in 1..Len(m[k2]) : o[m[k2][j]] = ln}
                IN  IF equal = {}
                    THEN [exc |-> "ValueError", map |-> m, point |-> other_point]
                    ELSE
                      LET j == CHOOSE a \in equal : \A b \in equal : a <= b
                          rest == RemoveAt(m[k2], j)
                      IN  [exc |-> "",
                           map |-> IF rest = <<>> THEN DelKey(m, k2)
                                   ELSE [m EXCEPT ![k2] = rest],
                           point |-> other_point]

StitchOthers == <<driverVars, parseVars, binVars, scaleVars, gearVars>>

\* path_lines, line 134: path = unused.take_line().  The bucket taken is the
\* first of the dict's iteration, which is any of them.
take_line ==
    /\ spc = "take"
    /\ has_lines(map)
    /\ \E k \in DOMAIN map :
         LET id == map[k][Len(map[k])]
             r == pop_other_line(PopLast(map, k), k, id, obj)
         IN  IF r.exc # ""
             THEN /\ spc' = r.exc
                  /\ map' = r.map
                  /\ UNCHANGED path
             ELSE /\ map' = r.map
                  /\ path' = id
                  /\ spc' = "extend"
    /\ UNCHANGED <<lines, obj, paths>>
    /\ UNCHANGED StitchOthers

\* path_lines, lines 136-139: point = unused.next_point(path[-1]) finds a line
\* at the path's last point, and path.append(point).
next_point ==
    /\ spc = "extend"
    /\ LET point == obj[path][Len(obj[path])]
           k == key(point)
       IN  /\ k \in DOMAIN map
           /\ LET id == map[k][Len(map[k])]
                  r == pop_other_line(PopLast(map, k), k, id, obj)
              IN  IF r.exc # ""
                  THEN /\ spc' = r.exc
                       /\ map' = r.map
                       /\ UNCHANGED obj
                  ELSE /\ map' = r.map
                       /\ obj' = [obj EXCEPT ![path] = Append(@, r.point)]
                       /\ spc' = "extend"
    /\ UNCHANGED <<lines, path, paths>>
    /\ UNCHANGED StitchOthers

\* A variant of append_path that leaves the inner loop after any point.
append_path_early ==
    /\ spc = "extend"
    /\ paths' = Append(paths, path)
    /\ path' = 0
    /\ spc' = "take"
    /\ UNCHANGED <<lines, obj, map>>
    /\ UNCHANGED StitchOthers

\* path_lines, lines 137 and 140: next_point returned None, paths.append(path).
append_path ==
    /\ spc = "extend"
    /\ key(obj[path][Len(obj[path])]) \notin DOMAIN map
    /\ paths' = Append(paths, path)
    /\ path' = 0
    /\ spc' = "take"
    /\ UNCHANGED <<lines, obj, map>>
    /\ UNCHANGED StitchOthers

\* path_lines, lines 133 and 141: the registry is empty, return paths.
return_paths ==
    /\ spc = "take"
    /\ ~has_lines(map)
    /\ spc' = "return"
    /\ UNCHANGED <<lines, obj, map, path, paths>>
    /\ UNCHANGED StitchOthers

\* The value path_lines returned: the objects of paths as they are now.
PathsValue == [i \in 1..Len(paths) |-> obj[paths[i]]]

(***************************************************************************)
(* The plane slicer.  A point is <<x, y, z>>, a facet a sequence of three  *)
(* points, an indexed facet <<max Z, min Z, facet>>.                       *)
(***************************************************************************)

\* A variant of find_line_plane_intersection that starts from a's X and Y.
find_line_plane_intersection_from_a(a, b, zz) ==
    LET dx == a[X] - b[X]
        dy == a[Y] - b[Y]
        dz == a[Z] - b[Z]
        z_z0 == zz - b[Z]
    IN  <<((z_z0 * dx) \div dz) + a[X], ((z_z0 * dy) \div dz) + a[Y]>>

\* A variant of find_line_plane_intersection that measures the height from a.
find_line_plane_intersection_z_a(a, b, zz) ==
    LET dx == a[X] - b[X]
        dy == a[Y] - b[Y]
        dz == a[Z] - b[Z]
        z_z0 == zz - a[Z]
    IN  <<((z_z0 * dx) \div dz) + b[X], ((z_z0 * dy) \div dz) + b[Y]>>

\* find_line_plane_intersection(a, b, z).  The program computes
\* z_z0 * (dx / dz) + b[X] in floats; in fixed point the product is taken first
\* and the quotient is exact on the meshes of the model.
find_line_plane_intersection(a, b, zz) ==
    LET dx == a[X] - b[X]
        dy == a[Y] - b[Y]
        dz == a[Z] - b[Z]
        z_z0 == zz - b[Z]
        xi == ((z_z0 * dx) \div dz) + b[X]
        yi == ((z_z0 * dy) \div dz) + b[Y]
    IN  <<xi, yi>>

\* A variant of tri_above_below that takes the points with Z = z as above.
tri_above_below_strict(tri, zz) ==
    [above |-> SelectSeq(tri, LAMBDA p : p[Z] >= zz),
     below |-> SelectSeq(tri, LAMBDA p : p[Z] < zz)]

\* tri_above_below(tri, z): the points with Z <= z are below, the others above,
\* each list in the order of the facet's points.
RECURSIVE PointsWhere(_, _, _, _)
PointsWhere(tri, zz, wantAbove, i) ==
    IF i > Len(tri) THEN <<>>
    ELSE (IF (tri[i][Z] > zz) = wantAbove THEN <<tri[i]>> ELSE <<>>)
         \o PointsWhere(tri, zz, wantAbove, i + 1)

\* A variant of tri_above_below that returns the two lists in the other order.
tri_above_below_swapped(tri, zz) ==
    [above |-> PointsWhere(tri, zz, FALSE, 1),
     below |-> PointsWhere(tri, zz, TRUE, 1)]

tri_above_below(tri, zz) ==
    [above |-> PointsWhere(tri, zz, TRUE, 1),
     below |-> PointsWhere(tri, zz, FALSE, 1)]

\* for a in above: for b in below: the pairs in the order of the two loops.
PairsOf(above, below) ==
    [n \in 1..(Len(above) * Len(below)) |->
        <<above[((n - 1) \div Len(below)) + 1], below[((n - 1) % Len(below)) + 1]>>]

\* A variant of slice_facet that appends the line whatever its keys.
slice_facet_keep_all(ifacet, zz) ==
    LET ab == tri_above_below(ifacet[3], zz)
        pairs == PairsOf(ab.above, ab.below)
        ln == [n \in 1..Len(pairs) |->
                    find_line_plane_intersection(pairs[n][1], pairs[n][2], zz)]
    IN  IF ifacet[2] > zz THEN [exc |-> "", lines |-> <<>>]
        ELSE IF ab.above = <<>> \/ ab.below = <<>> THEN [exc |-> "", lines |-> <<>>]
        ELSE IF \E n \in 1..Len(pairs) : pairs[n][1][Z] = pairs[n][2][Z]
             THEN [exc |-> "ZeroDivisionError", lines |-> <<>>]
        ELSE IF Len(ln) < 2 THEN [exc |-> "IndexError", lines |-> <<>>]
        ELSE [exc |-> "", lines |-> <<ln>>]

\* slice_shape_at, lines 45-57, for one indexed facet: the exception raised
\* ("" for none) and the lines appended (none or one).
slice_facet(ifacet, zz) ==
    LET ab == tri_above_below(ifacet[3], zz)
        pairs == PairsOf(ab.above, ab.below)
        ln == [n \in 1..Len(pairs) |->
                    find_line_plane_intersection(pairs[n][1], pairs[n][2], zz)]
    IN  IF ifacet[2] > zz THEN [exc |-> "", lines |-> <<>>]
        ELSE IF ab.above = <<>> \/ ab.below = <<>> THEN [exc |-> "", lines |-> <<>>]
        ELSE IF \E n \in 1..Len(pairs) : pairs[n][1][Z] = pairs[n][2][Z]
             THEN [exc |-> "ZeroDivisionError", lines |-> <<>>]
        ELSE IF Len(ln) < 2 THEN [exc |-> "IndexError", lines |-> <<>>]
        ELSE IF key(ln[1]) # key(ln[2]) THEN [exc |-> "", lines |-> <<ln>>]
        ELSE [exc |-> "", lines |-> <<>>]

\* slice_shape_at(facets, z): the facets in order, up to the first exception.
RECURSIVE SliceFrom(_, _, _, _)
SliceFrom(ifacets, zz, i, acc) ==
    IF i > Len(ifacets) THEN [exc |-> "", lines |-> acc]
    ELSE LET r == slice_facet(ifacets[i], zz)
         IN  IF r.exc # "" THEN [exc |-> r.exc, lines |-> acc]
             ELSE SliceFrom(ifacets, zz, i + 1, acc \o r.lines)

slice_shape_at(ifacets, zz) == SliceFrom(ifacets, zz, 1, <<>>)

(***************************************************************************)
(* z_sort_facets: sorted() of the tuples (max Z, min Z, facet), which      *)
(* Python compares lexicographically, the facet point by point.            *)
(***************************************************************************)
Max3(a, b, c) == Max2(a, Max2(b, c))
Min3(a, b, c) == Min2(a, Min2(b, c))

IndexFacet(tri) ==
    <<Max3(tri[1][Z], tri[2][Z], tri[3][Z]), Min3(tri[1][Z], tri[2][Z], tri[3][Z]), tri>>

Flat(ifacet) ==
    <<ifacet[1], ifacet[2]>> \o ifacet[3][1] \o ifacet[3][2] \o ifacet[3][3]

LexLess(s, t) ==
    \E i \in 1..Min2(Len(s), Len(t)) :
        /\ s[i] < t[i]
        /\ \A j \in 1..(i - 1) : s[j] = t[j]

RECURSIVE InsertSorted(_, _)
InsertSorted(sorted, e) ==
    IF sorted = <<>> THEN <<e>>
    ELSE IF LexLess(Flat(e), Flat(Head(sorted))) THEN <<e>> \o sorted
    ELSE <<Head(sorted)>> \o InsertSorted(Tail(sorted), e)

RECURSIVE SortFrom(_, _, _)
SortFrom(ifacets, i, acc) ==
    IF i > Len(ifacets) THEN acc
    ELSE SortFrom(ifacets, i + 1, InsertSorted(acc, ifacets[i]))

z_sort_facets(fs) == SortFrom([i \in 1..Len(fs) |-> IndexFacet(fs[i])], 1, <<>>)

(***************************************************************************)
(* command_line, from the call of z_sort_facets on: the layering driver.   *)
(* The writer is an external collaborator; writer is the sequence of the   *)
(* calls the driver made on it.  The entry of a write_layer_paths call     *)
(* also notes the height z of its layer, which the writer is not given.    *)
(***************************************************************************)

\* math.ceil(n / d) for d > 0.
CeilDiv(n, d) == -((-n) \div d)

\* math.ceil(maxz - minz / thickness): the division binds tighter than the
\* subtraction.  maxz is a height (in fixed point), minz / thickness a ratio.
layers_of(lo, hi, th) == CeilDiv(hi * th - lo * Fine, Fine * th)

WriterCall(op, n, height, ps) == [op |-> op, layer |-> n, z |-> height, paths |-> ps]

DriverOthers == <<parseVars, binVars, scaleVars, gearVars>>

\* lines 220-240: sort the facets, count the layers, open the writer.
open_writer ==
    /\ dpc = "start"
    /\ maxz_facets' = z_sort_facets(mesh)
    /\ writer' = <<WriterCall("open", layers_of(minz, maxz, thickness), 0, <<>>)>>
    /\ z' = minz
    /\ layer' = 1
    /\ paths_all' = <<>>
    /\ dpc' = "loop"
    /\ UNCHANGED <<mesh, minz, maxz, thickness>>
    /\ UNCHANGED stitchVars
    /\ UNCHANGED DriverOthers

\* A variant of PruneCount that looks at the min Z of the facets.
RECURSIVE PruneCount_by_min_z(_, _, _)
PruneCount_by_min_z(ifacets, zz, i) ==
    IF i < Len(ifacets) /\ ifacets[i + 1][2] < zz
    THEN PruneCount_by_min_z(ifacets, zz, i + 1)
    ELSE i

\* The number of leading facets of the list whose max Z is below zz
\* (lines 242-244: i = 0; while maxz_facets[i][0] < z: i += 1).
RECURSIVE PruneCount(_, _, _)
PruneCount(ifacets, zz, i) ==
    IF i < Len(ifacets) /\ ifacets[i + 1][1] < zz
    THEN PruneCount(ifacets, zz, i + 1)
    ELSE i

\* lines 241-249: one pass of the loop up to the call of path_lines, whose
\* first statement builds the LineMap.
slice_layer ==
    /\ dpc = "loop"
    /\ z <= maxz
    /\ LET i == PruneCount(maxz_facets, z, 0)
           pruned == SubSeq(maxz_facets, i + 1, Len(maxz_facets))
           r == slice_shape_at(pruned, z)
       IN  IF i >= Len(maxz_facets)
           THEN /\ dpc' = "IndexError"
                /\ UNCHANGED <<maxz_facets, stitchVars>>
           ELSE IF r.exc # ""
           THEN /\ dpc' = r.exc
                /\ maxz_facets' = pruned
                /\ UNCHANGED stitchVars
           ELSE /\ maxz_facets' = pruned
                /\ lines' = r.lines
                /\ obj' = r.lines
                /\ map' = LineMapInit(r.lines, 1, EmptyMap)
                /\ path' = 0
                /\ paths' = <<>>
                /\ spc' = "take"
                /\ dpc' = "path_lines"
    /\ UNCHANGED <<mesh, minz, maxz, thickness, z, layer, paths_all, writer>>
    /\ UNCHANGED DriverOthers

\* A variant of write_layer that does not step the layer index.
write_layer_same_index ==
    /\ dpc = "path_lines"
    /\ spc = "return"
    /\ writer' = Append(writer, WriterCall("write_layer_paths", layer, z, PathsValue))
    /\ paths_all' = Append(paths_all, PathsValue)
    /\ z' = z + thickness
    /\ layer' = layer
    /\ dpc' = "loop"
    /\ spc' = "idle"
    /\ UNCHANGED <<mesh, minz, maxz, thickness, maxz_facets>>
    /\ UNCHANGED <<lines, obj, map, path, paths>>
    /\ UNCHANGED DriverOthers

\* lines 249-253: path_lines returned; write the layer and step the plane.
write_layer ==
    /\ dpc = "path_lines"
    /\ spc = "return"
    /\ writer' = Append(writer, WriterCall("write_layer_paths", layer, z, PathsValue))
    /\ paths_all' = Append(paths_all, PathsValue)
    /\ z' = z + thickness
    /\ layer' = layer + 1
    /\ dpc' = "loop"
    /\ spc' = "idle"
    /\ UNCHANGED <<mesh, minz, maxz, thickness, maxz_facets>>
    /\ UNCHANGED <<lines, obj, map, path, paths>>
    /\ UNCHANGED DriverOthers

\* A variant of finish that drops the last layer's paths.
finish_drop_last ==
    /\ dpc = "loop"
    /\ z > maxz
    /\ writer' = Append(writer, WriterCall("finish", 0, 0, <<>>))
    /\ IF paths_all = <<>>
       THEN /\ dpc' = "IndexError"
            /\ UNCHANGED paths_all
       ELSE /\ paths_all' = SubSeq(paths_all, 1, Len(paths_all) - 1)
            /\ dpc' = "return"
    /\ UNCHANGED <<mesh, minz, maxz, thickness, maxz_facets, z, layer>>
    /\ UNCHANGED stitchVars
    /\ UNCHANGED DriverOthers

\* lines 254-260: the loop is over; finish the writer, drop the first layer's
\* paths and return the rest.
finish ==
    /\ dpc = "loop"
    /\ z > maxz
    /\ writer' = Append(writer, WriterCall("finish", 0, 0, <<>>))
    /\ IF paths_all = <<>>
       THEN /\ dpc' = "IndexError"
            /\ UNCHANGED paths_all
       ELSE /\ paths_all' = Tail(paths_all)
            /\ dpc' = "return"
    /\ UNCHANGED <<mesh, minz, maxz, thickness, maxz_facets, z, layer>>
    /\ UNCHANGED stitchVars
    /\ UNCHANGED DriverOthers

(***************************************************************************)
(* The text mesh loader (b_slice_stl.py).  A line of the stream is a        *)
(* sequence of atoms: words, and " " for one blank.  str.strip, str.split  *)
(* and ' '.join work on the blanks as Python's do.                         *)
(***************************************************************************)
Blank == " "

RECURSIVE LStrip(_)
LStrip(l) == IF l # <<>> /\ Head(l) = Blank THEN LStrip(Tail(l)) ELSE l

RECURSIVE RStrip(_)
RStrip(l) ==
    IF l # <<>> /\ l[Len(l)] = Blank THEN RStrip(SubSeq(l, 1, Len(l) - 1)) ELSE l

\* str.strip()
Strip(l) == RStrip(LStrip(l))

\* str.split(): the words between runs of blanks
Split(l) == SelectSeq(l, LAMBDA a : a # Blank)

\* ' '.join(words)
RECURSIVE Join(_)
Join(ws) ==
    IF ws = <<>> THEN <<>>
    ELSE IF Len(ws) = 1 THEN ws
    ELSE <<Head(ws), Blank>> \o Join(Tail(ws))

\* The words that begin with the letters "facet".
FacetWords == {"facet", "facets"}

\* line.startswith('facet'), for a stripped line
StartsWithFacet(l) == l # <<>> /\ Head(l) \in FacetWords

\* float(num) of the words that are numbers; float raises ValueError on the others.
FloatOf == [w \in {"0", "1"} |-> IF w = "0" THEN 0 ELSE Unit(1)]

\* f.readline().strip(): at the end of the stream readline returns ''.
ReadLine(stream) == IF stream = <<>> THEN <<>> ELSE Strip(Head(stream))
Rest(stream) == IF stream = <<>> THEN <<>> ELSE Tail(stream)

ParseOthers == <<stitchVars, driverVars, binVars, scaleVars, gearVars>>

\* parseText, lines 24-31: the header line, and the first line after it.
parse_header ==
    /\ ppc = "parseText"
    /\ LET header == ReadLine(f)
           parts == Split(header)
       IN  IF parts = <<>>
           THEN /\ ppc' = "IndexError"
                /\ line' = header
                /\ UNCHANGED <<name, perr>>
                /\ f' = Rest(f)
           ELSE IF parts[1] # "solid"
           THEN /\ ppc' = "ValueError"
                /\ perr' = "solid ..."
                /\ line' = header
                /\ UNCHANGED name
                /\ f' = Rest(f)
           ELSE /\ name' = Join(Tail(parts))
                /\ line' = ReadLine(Rest(f))
                /\ f' = Rest(Rest(f))
                /\ ppc' = "while facet"
                /\ UNCHANGED perr
    /\ UNCHANGED <<dev, facets, facet>>
    /\ UNCHANGED ParseOthers

\* parseText line 32 (the line starts with 'facet') and readFacet lines 2-8.
read_facet_open ==
    /\ ppc = "while facet"
    /\ StartsWithFacet(line)
    /\ IF ReadLine(f) # <<"outer", Blank, "loop">>
       THEN /\ ppc' = "ValueError"
            /\ perr' = "outer loop"
            /\ line' = ReadLine(f)
            /\ f' = Rest(f)
            /\ UNCHANGED facet
       ELSE /\ facet' = <<>>
            /\ line' = ReadLine(Rest(f))
            /\ f' = Rest(Rest(f))
            /\ ppc' = "while not endloop"
            /\ UNCHANGED perr
    /\ UNCHANGED <<dev, name, facets>>
    /\ UNCHANGED ParseOthers

\* readFacet lines 9-15: one line of the loop that is not 'endloop'.
read_vertex ==
    /\ ppc = "while not endloop"
    /\ line # <<"endloop">>
    /\ LET parts == Split(line)
       IN  IF parts = <<>>
           THEN /\ ppc' = "IndexError"
                /\ UNCHANGED <<facet, line, f, perr>>
           ELSE IF parts[1] # "vertex"
           THEN /\ ppc' = "ValueError"
                /\ perr' = "vertex x y z"
                /\ UNCHANGED <<facet, line, f>>
           ELSE IF \E i \in 2..Len(parts) : parts[i] \notin DOMAIN FloatOf
           THEN /\ ppc' = "ValueError"
                /\ perr' = "float"
                /\ UNCHANGED <<facet, line, f>>
           ELSE /\ facet' = Append(facet, [i \in 1..(Len(parts) - 1) |-> FloatOf[parts[i + 1]]])
                /\ line' = ReadLine(f)
                /\ f' = Rest(f)
                /\ UNCHANGED <<ppc, perr>>
    /\ UNCHANGED <<dev, name, facets>>
    /\ UNCHANGED ParseOthers

\* readFacet lines 9 and 16-20 (the loop met 'endloop'), parseText lines 33-34.
read_facet_close ==
    /\ ppc = "while not endloop"
    /\ line = <<"endloop">>
    /\ IF ReadLine(f) # <<"endfacet">>
       THEN /\ ppc' = "ValueError"
            /\ perr' = "endfacet"
            /\ line' = ReadLine(f)
            /\ f' = Rest(f)
            /\ UNCHANGED facets
       ELSE /\ facets' = Append(facets, facet)
            /\ line' = ReadLine(Rest(f))
            /\ f' = Rest(Rest(f))
            /\ ppc' = "while facet"
            /\ UNCHANGED perr
    /\ UNCHANGED <<dev, name, facet>>
    /\ UNCHANGED ParseOthers

\* parseText lines 32 (the line does not start with 'facet') and 35-38.
parse_close ==
    /\ ppc = "while facet"
    /\ ~StartsWithFacet(line)
    /\ IF line # <<"endsolid", Blank>> \o name
       THEN /\ ppc' = "ValueError"
            /\ perr' = "endsolid"
       ELSE /\ ppc' = "return"
            /\ UNCHANGED perr
    /\ UNCHANGED <<dev, f, line, name, facets, facet>>
    /\ UNCHANGED ParseOthers

(***************************************************************************)
(* The binary mesh loader, parseBin.  The stream is a sequence of bytes.   *)
(* f.read(n) returns the next n bytes, or as many as are left;             *)
(* struct.unpack raises struct.error when it is not given exactly the      *)
(* bytes of its format.                                                    *)
(***************************************************************************)

\* f.read(n) and what it leaves in the stream.
Read(bytes, n) == SubSeq(bytes, 1, Min2(n, Len(bytes)))
Skip(bytes, n) == SubSeq(bytes, Min2(n, Len(bytes)) + 1, Len(bytes))

\* struct.unpack('<I', b) of four bytes: little-endian, unsigned.
UnpackI(b) == b[1] + (256 * b[2]) + (65536 * b[3]) + (16777216 * b[4])

\* struct.unpack('<f', b) of the two float patterns the streams are made of.
UnpackF(b) == IF b = <<0, 0, 128, 63>> THEN Unit(1) ELSE 0

\* struct.unpack('<fff', b) of twelve bytes.
UnpackFFF(b) ==
    <<UnpackF(SubSeq(b, 1, 4)), UnpackF(SubSeq(b, 5, 8)), UnpackF(SubSeq(b, 9, 12))>>

BinOthers == <<stitchVars, driverVars, parseVars, scaleVars, gearVars>>

\* parseBin lines 43-47: the 80-byte header and the facet count.
bin_header ==
    /\ bpc = "parseBin"
    /\ LET rest == Skip(bstream, 80)
           word == Read(rest, 4)
       IN  /\ bstream' = Skip(rest, 4)
           /\ IF Len(word) # 4
              THEN /\ bpc' = "struct.error"
                   /\ UNCHANGED count
              ELSE /\ count' = UnpackI(word)
                   /\ bpc' = "for facet"
    /\ bi' = 0
    /\ bfacets' = <<>>
    /\ UNCHANGED bsrc
    /\ UNCHANGED BinOthers

\* parseBin lines 48-54: one pass of the facet loop.  The normal and the
\* three points are unpacked; the two attribute bytes are read and dropped.
bin_facet ==
    /\ bpc = "for facet"
    /\ bi < count
    /\ LET normal == Read(bstream, 12)
           after == Skip(bstream, 12)
           p(n) == Read(Skip(after, 12 * (n - 1)), 12)
       IN  IF Len(normal) # 12
           THEN /\ bpc' = "struct.error"
                /\ bstream' = after
                /\ UNCHANGED <<bi, bfacets>>
           ELSE IF \E n \in 1..3 : Len(p(n)) # 12
           THEN /\ bpc' = "struct.error"
                /\ bstream' = <<>>
                /\ UNCHANGED <<bi, bfacets>>
           ELSE /\ bfacets' = Append(bfacets, [n \in 1..3 |-> UnpackFFF(p(n))])
                /\ bstream' = Skip(Skip(after, 36), 2)
                /\ bi' = bi + 1
                /\ UNCHANGED bpc
    /\ UNCHANGED <<bsrc, count>>
    /\ UNCHANGED BinOthers

\* parseBin line 55: the loop is over, return facets.
bin_return ==
    /\ bpc = "for facet"
    /\ bi >= count
    /\ bpc' = "return"
    /\ UNCHANGED <<bsrc, bstream, count, bi, bfacets>>
    /\ UNCHANGED BinOthers

(***************************************************************************)
(* Python floats, for scale_to_fit.  A float is an IEEE double: zero, or a *)
(* sign, an exponent and a significand of 53 bits, the first of them 1,    *)
(* standing for (+/-) 1.b2 b3 ... b53 * 2^exp.  The operations round to    *)
(* nearest, ties to even, as the machine's do.  They are defined on the    *)
(* operands scale_to_fit meets on the model's meshes: a quotient of two    *)
(* whole numbers below 2^15 or of a number by itself, a product with a     *)
(* whole number below 2^20, a difference of whole numbers, with zero or of *)
(* two numbers of one sign.                                                *)
(***************************************************************************)
Abs(n) == IF n < 0 THEN -n ELSE n

Zeros(n) == [k \in 1..n |-> 0]

Pow2(k) == 2^k

\* The number of binary digits of n, 0 < n < 2^31.
BitLen(n) == CHOOSE k \in 1..31 : Pow2(k - 1) <= n /\ (k = 31 \/ n < Pow2(k))

\* The binary digits of a natural number, the highest first.
BitsOf(n) ==
    IF n = 0 THEN <<>>
    ELSE LET len == BitLen(n)
         IN  [i \in 1..len |-> (n \div Pow2(len - i)) % 2]

\* The number with these binary digits (fewer than 32), by halves.
RECURSIVE IntOf(_)
IntOf(bits) ==
    IF Len(bits) = 0 THEN 0
    ELSE IF Len(bits) = 1 THEN bits[1]
    ELSE LET h == Len(bits) \div 2
         IN  (IntOf(SubSeq(bits, 1, h)) * Pow2(Len(bits) - h))
                 + IntOf(SubSeq(bits, h + 1, Len(bits)))

Double(neg, exp, bits) == [neg |-> neg, exp |-> exp, bits |-> bits]

FZero == Double(FALSE, 0, <<>>)

\* float(n) of a whole number n.
F(n) ==
    IF n = 0 THEN FZero
    ELSE LET b == BitsOf(Abs(n))
         IN  Double(n < 0, Len(b) - 1, b \o Zeros(53 - Len(b)))

\* The float is a whole number below 2^31, and that number.
IsWhole(d) ==
    \/ d = FZero
    \/ /\ d.exp \in 0..30
       /\ \A i \in (d.exp + 2)..53 : d.bits[i] = 0

WholeOf(d) ==
    IF d = FZero THEN 0
    ELSE (IF d.neg THEN -1 ELSE 1) * IntOf(SubSeq(d.bits, 1, d.exp + 1))

\* An operation outside the operands named above has no value here.
Unsupported == CHOOSE d \in {} : TRUE

\* bits + 1 in the last place, for bits that are not all ones: the last 0
\* becomes 1 and the ones after it become 0.
IncBits(bits) ==
    LET k == CHOOSE i \in 1..Len(bits) :
                 bits[i] = 0 /\ \A j \in (i + 1)..Len(bits) : bits[j] = 1
    IN  [i \in 1..Len(bits) |-> IF i < k THEN bits[i] ELSE IF i = k THEN 1 ELSE 0]

\* Round to nearest, ties to even: bits are the first 53 digits of the exact
\* result, guard the next one, sticky whether any later digit is 1.
RoundEven(neg, exp, bits, guard, sticky) ==
    IF guard = 1 /\ (sticky \/ bits[53] = 1)
    THEN IF \A i \in 1..53 : bits[i] = 1
         THEN Double(neg, exp + 1, <<1>> \o Zeros(52))
         ELSE Double(neg, exp, IncBits(bits))
    ELSE Double(neg, exp, bits)

\* 2^j mod b, for j <= 60 and b < 2^15.
PowMod(j, b) == ((Pow2(j \div 2) % b) * (Pow2(j - (j \div 2)) % b)) % b

\* Long division: n more digits of r / b for r < b < 2^15, after the digits
\* acc, and the remainder left.  Digit i is the whole part of twice the
\* remainder that i - 1 digits leave, which is r * 2^(i-1) mod b.
DivDigits(r, b, n, acc) ==
    [bits |-> acc \o [i \in 1..n |-> (2 * ((r * PowMod(i - 1, b)) % b)) \div b],
     rem |-> (r * PowMod(n, b)) % b]

\* The greatest k with lo * 2^k <= hi (0 < lo <= hi).
ShiftUp(lo, hi) ==
    CHOOSE k \in 0..30 : Pow2(k) <= hi \div lo /\ (k = 30 \/ Pow2(k + 1) > hi \div lo)

\* The least k with lo * 2^k >= hi (0 < lo < hi).
ShiftOver(lo, hi) ==
    LET c == (hi + (lo - 1)) \div lo
    IN  CHOOSE k \in 0..30 : Pow2(k) >= c /\ (k = 0 \/ Pow2(k - 1) < c)

\* a / b of two whole numbers, b # 0, a # 0.
DivWhole(a, b) ==
    LET neg == (a < 0) # (b < 0)
        up == Abs(a) >= Abs(b)
        k == IF up THEN ShiftUp(Abs(b), Abs(a)) ELSE ShiftOver(Abs(a), Abs(b))
        num == IF up THEN Abs(a) ELSE Abs(a) * Pow2(k)
        den == IF up THEN Abs(b) * Pow2(k) ELSE Abs(b)
        q == DivDigits(num - den, den, 53, <<1>>)
    IN  RoundEven(neg, IF up THEN k ELSE -k, SubSeq(q.bits, 1, 53), q.bits[54], q.rem # 0)

\* The float is a whole number below 2^k in size.
IsBelow(d, k) == d = FZero \/ (IsWhole(d) /\ d.exp < k)

\* a / b for b # 0.
FDiv(a, b) ==
    IF a = FZero THEN FZero
    ELSE IF a = b THEN F(1)
    ELSE IF IsBelow(a, 15) /\ IsBelow(b, 15) THEN DivWhole(WholeOf(a), WholeOf(b))
    ELSE Unsupported

\* The digits of (the number with the 53 digits bits) * m for 0 < m < 2^20:
\* the product is taken ten digits at a time from the last digit up, each
\* part handing its carry to the next.
MulDigits(bits, m) ==
    LET part(lo, hi) == IntOf(SubSeq(bits, lo, hi))
        low(t) == LET b == BitsOf(t % Pow2(10)) IN Zeros(10 - Len(b)) \o b
        t1 == part(44, 53) * m
        t2 == (part(34, 43) * m) + (t1 \div Pow2(10))
        t3 == (part(24, 33) * m) + (t2 \div Pow2(10))
        t4 == (part(14, 23) * m) + (t3 \div Pow2(10))
        t5 == (part(4, 13) * m) + (t4 \div Pow2(10))
        t6 == (part(1, 3) * m) + (t5 \div Pow2(10))
    IN  BitsOf(t6) \o low(t5) \o low(t4) \o low(t3) \o low(t2) \o low(t1)

\* d * n for a float d # 0 and a whole number n # 0.
MulWhole(d, n) ==
    LET p == MulDigits(d.bits, Abs(n))
        more == Len(p) - 53
    IN  RoundEven(d.neg # (n < 0), d.exp + more, SubSeq(p, 1, 53),
                  IF more >= 1 THEN p[54] ELSE 0,
                  \E i \in 55..Len(p) : p[i] = 1)

\* a * b
FMul(a, b) ==
    IF a = FZero \/ b = FZero THEN FZero
    ELSE IF IsBelow(b, 20) THEN MulWhole(a, WholeOf(b))
    ELSE IF IsBelow(a, 20) THEN MulWhole(b, WholeOf(a))
    ELSE Unsupported

\* |a| < |b| for a, b # 0
MagLess(a, b) ==
    \/ a.exp < b.exp
    \/ a.exp = b.exp /\ \E i \in 1..53 :
          /\ a.bits[i] < b.bits[i]
          /\ \A j \in 1..(i - 1) : a.bits[j] = b.bits[j]

\* Part c of a digit sequence cut into parts of 20 digits, as a number.
SubPart(sq, c) == IntOf(SubSeq(sq, (20 * (c - 1)) + 1, 20 * c))

\* Part c borrows when, among the parts after it, the first in which hi and
\* lo differ is smaller in hi.
SubBorrow(hi, lo, c) ==
    IF \E j \in (c + 1)..(Len(hi) \div 20) :
          /\ SubPart(hi, j) < SubPart(lo, j)
          /\ \A k \in (c + 1)..(j - 1) : SubPart(hi, k) = SubPart(lo, k)
    THEN 1 ELSE 0

\* The 20 digits of part c of hi - lo.
SubPartDigits(hi, lo, c) ==
    LET b == BitsOf((SubPart(hi, c) - SubPart(lo, c) - SubBorrow(hi, lo, c) + Pow2(20))
                    % Pow2(20))
    IN  Zeros(20 - Len(b)) \o b

\* The digits of hi - lo for two digit sequences of one length, a multiple
\* of 20, hi >= lo, from part c on.
RECURSIVE SubDigits(_, _, _)
SubDigits(hi, lo, c) ==
    IF 20 * c > Len(hi) THEN <<>>
    ELSE SubPartDigits(hi, lo, c) \o SubDigits(hi, lo, c + 1)

\* The digits after the first 1 of diff, that 1 included.
FromFirstOne(diff) ==
    SubSeq(diff, CHOOSE i \in 1..Len(diff) :
                     diff[i] = 1 /\ \A j \in 1..(i - 1) : diff[j] = 0, Len(diff))

\* The float that the exact difference diff, whose digits from the first 1 on
\* are digits and whose first digit has the exponent exp, rounds to.
SubRound(neg, exp, diff, digits) ==
    RoundEven(neg, exp - (Len(diff) - Len(digits)), SubSeq(digits \o Zeros(54), 1, 53),
              (digits \o Zeros(54))[54], \E i \in 55..Len(digits) : digits[i] = 1)

\* |a| - |b| for |a| > |b| > 0 with the sign neg: the exact difference of the
\* significands, b's moved right by the difference of the exponents, is
\* rounded to 53 digits from its first 1 on.  Both are put on 120 digits.
SubExact(a, b) ==
    SubDigits(a.bits \o Zeros(67), Zeros(a.exp - b.exp) \o b.bits \o Zeros(67 - (a.exp - b.exp)), 1)

SubMag(neg, a, b) == SubRound(neg, a.exp, SubExact(a, b), FromFirstOne(SubExact(a, b)))

\* a - b
FSub(a, b) ==
    IF b = FZero THEN a
    ELSE IF a = b THEN FZero
    ELSE IF IsWhole(a) /\ IsWhole(b) THEN F(WholeOf(a) - WholeOf(b))
    ELSE IF a = FZero THEN Double(~b.neg, b.exp, b.bits)
    ELSE IF a.neg = b.neg /\ Abs(a.exp - b.exp) <= 64
    THEN IF MagLess(b, a) THEN SubMag(a.neg, a, b) ELSE SubMag(~a.neg, b, a)
    ELSE Unsupported

\* a < b
FLess(a, b) ==
    IF a = b THEN FALSE
    ELSE IF a = FZero THEN ~b.neg
    ELSE IF b = FZero THEN a.neg
    ELSE IF a.neg # b.neg THEN a.neg
    ELSE IF a.neg THEN MagLess(b, a)
    ELSE MagLess(a, b)

\* a <= b
FLessEq(a, b) == a = b \/ FLess(a, b)

\* min(a, b) and max(a, b) of Python: the first argument unless the second
\* is smaller (larger).
FMin(a, b) == IF FLess(b, a) THEN b ELSE a
FMax(a, b) == IF FLess(a, b) THEN b ELSE a

(***************************************************************************)
(* bounding_cube and scale_to_fit.  The coordinates, the width, the height *)
(* and the scale are floats; a scale of zero stands for no scale given     *)
(* (the program tests 'if scale').                                         *)
(***************************************************************************)

\* The points of all the facets, in order.
RECURSIVE PointsOfFacets(_)
PointsOfFacets(fs) ==
    IF fs = <<>> THEN <<>> ELSE Head(fs) \o PointsOfFacets(Tail(fs))

\* minx = min(minx, point[X]) over the points, from the starting value acc.
RECURSIVE Lowest(_, _, _, _)
Lowest(pts, axis, i, acc) ==
    IF i > Len(pts) THEN acc ELSE Lowest(pts, axis, i + 1, FMin(acc, pts[i][axis]))

RECURSIVE Highest(_, _, _, _)
Highest(pts, axis, i, acc) ==
    IF i > Len(pts) THEN acc ELSE Highest(pts, axis, i + 1, FMax(acc, pts[i][axis]))

\* bounding_cube(facets): each minimum starts at 99999, each maximum at -99999.
bounding_cube(fs) ==
    LET pts == PointsOfFacets(fs)
    IN  [minx |-> Lowest(pts, X, 1, F(99999)), maxx |-> Highest(pts, X, 1, F(-99999)),
         miny |-> Lowest(pts, Y, 1, F(99999)), maxy |-> Highest(pts, Y, 1, F(-99999)),
         minz |-> Lowest(pts, Z, 1, F(99999)), maxz |-> Highest(pts, Z, 1, F(-99999))]

ScaleResult(exc, scale, width, height, lo, hi, fs) ==
    [exc |-> exc, scale |-> scale, width |-> width, height |-> height,
     minz |-> lo, maxz |-> hi, facets |-> fs]

\* lines 187-189: every point moved by -min and scaled.
scale_facets(fs, bc, sc) ==
    [i \in 1..Len(fs) |->
        [j \in 1..Len(fs[i]) |->
            <<FMul(FSub(fs[i][j][X], bc.minx), sc),
              FMul(FSub(fs[i][j][Y], bc.miny), sc),
              FMul(FSub(fs[i][j][Z], bc.minz), sc)>>]]

\* line 191: return width, height, 0, (maxz - minz) * scale, scaled_facets
scale_result(fs, width, height, sc, bc) ==
    ScaleResult("", sc, width, height, FZero,
                FMul(FSub(bc.maxz, bc.minz), sc), scale_facets(fs, bc, sc))

\* lines 180-182: the loop leaves scale at the candidate that fits, or at the
\* last one.
try_scales(first, second, width, height, xsize, ysize) ==
    IF FLessEq(FMul(first, xsize), width) /\ FLessEq(FMul(first, ysize), height)
    THEN first
    ELSE second

\* sorted((width / xsize, height / ysize), reverse=True)
sorted_scales(cx, cy, width, height, xsize, ysize) ==
    IF FLess(cx, cy)
    THEN try_scales(cy, cx, width, height, xsize, ysize)
    ELSE try_scales(cx, cy, width, height, xsize, ysize)

\* lines 176-182, after the swap: a scale of zero is no scale.
scale_chosen(fs, width, height, scale, bc, xsize, ysize) ==
    IF scale # FZero
    THEN scale_result(fs, FMul(xsize, scale), FMul(ysize, scale), scale, bc)
    ELSE IF xsize = FZero \/ ysize = FZero
    THEN ScaleResult("ZeroDivisionError", FZero, width, height, FZero, FZero, <<>>)
    ELSE scale_result(fs, width, height,
                      sorted_scales(FDiv(width, xsize), FDiv(height, ysize),
                                    width, height, xsize, ysize),
                      bc)

\* lines 172-174: width and height are swapped when the proportions differ.
scale_sized(fs, width, height, scale, bc, xsize, ysize) ==
    IF \/ FLess(height, width) /\ FLess(xsize, ysize)
       \/ FLess(width, height) /\ FLess(ysize, xsize)
    THEN scale_chosen(fs, height, width, scale, bc, xsize, ysize)
    ELSE scale_chosen(fs, width, height, scale, bc, xsize, ysize)

\* line 168: xsize, ysize = maxx - minx, maxy - miny
scale_in_cube(fs, width, height, scale, bc) ==
    scale_sized(fs, width, height, scale, bc,
                FSub(bc.maxx, bc.minx), FSub(bc.maxy, bc.miny))

\* scale_to_fit(facets, width, height, scale): the exception raised ("" for
\* none), the scale applied and the tuple returned.
scale_to_fit(fs, width, height, scale) ==
    scale_in_cube(fs, width, height, scale, bounding_cube(fs))

ScaleOthers == <<stitchVars, driverVars, parseVars, binVars, gearVars>>

NoResult == ScaleResult("", FZero, FZero, FZero, FZero, FZero, <<>>)

\* scale_to_fit applied to the arguments.
scale_call ==
    /\ scpc = "call"
    /\ sret' = scale_to_fit(sarg.facets, sarg.width, sarg.height, sarg.scale)
    /\ scpc' = IF sret'.exc # "" THEN sret'.exc ELSE "returned"
    /\ UNCHANGED <<sarg, sret2>>
    /\ UNCHANGED ScaleOthers

\* scale_to_fit applied to the facets it returned, with the X and Y extents
\* of their bounding cube as width and height and no scale.
scale_again ==
    /\ scpc = "returned"
    /\ LET bc == bounding_cube(sret.facets)
       IN  sret2' = scale_to_fit(sret.facets, FSub(bc.maxx, bc.minx),
                                 FSub(bc.maxy, bc.miny), FZero)
    /\ scpc' = IF sret2'.exc # "" THEN sret2'.exc \o " again" ELSE "returned again"
    /\ UNCHANGED <<sarg, sret>>
    /\ UNCHANGED ScaleOthers

(***************************************************************************)
(* Makergear and file_read (m2py.py).  A line of the port is a sequence of *)
(* characters; a command written by a method is a tuple of its code and    *)
(* its numbers; a command written by file_read is the characters sent.     *)
(* The printer answers each thing written once, with a line starting with  *)
(* ok, possibly after a line of chatter.  readline() returns the next line *)
(* or, when none has come within the timeout, the empty line.              *)
(***************************************************************************)
GearOthers == <<stitchVars, driverVars, parseVars, binVars, scaleVars>>

OkLine == <<"o", "k">>
OkTempLine == <<"o", "k", " ", "T">>
EchoLine == <<"e", "c", "h", "o">>

\* A variant of is_ok that takes any line that came as the acknowledgement.
is_ok_any_line(rd) == rd # <<>>

\* not (read[0:2] != b'ok'): the test that ends every wait loop.
is_ok(rd) == SubSeq(rd, 1, IF Len(rd) < 2 THEN Len(rd) ELSE 2) = <<"o", "k">>

\* The number of handle.write calls made so far.
NumWrites(wire) == Cardinality({i \in 1..Len(wire) : wire[i][1] = "w"})

\* handle.write(cmd).
Written(cmd) == [handle EXCEPT !.wire = Append(@, <<"w", cmd>>)]

\* The method returns to its caller, which runs what is left.
Continue(rest) ==
    /\ todo' = rest
    /\ gpc' = IF rest = <<>> THEN "idle" ELSE "run"

\* The method has written a command and enters its wait loop.
Wait(rest) ==
    /\ todo' = rest
    /\ gpc' = "readline"

\* An exception leaves every method on the stack.
Raise(exc) ==
    /\ todo' = <<>>
    /\ gpc' = exc

\* self.handle.write(cmd) on the serial port and the wait loop after it; the
\* write raises when the port has been closed.
Send(cmd, rest) ==
    IF handle.port = "closed"
    THEN /\ Raise("SerialException")
         /\ UNCHANGED handle
    ELSE /\ handle' = Written(cmd)
         /\ Wait(rest)

\* self.handle.write(line) on the path file; the write raises when the file
\* has been closed.
Record(ln, rest) ==
    IF handle.port = "closed"
    THEN /\ Raise("ValueError")
         /\ UNCHANGED handle
    ELSE /\ handle' = Written(ln)
         /\ Continue(rest)

\* The method writes nothing and returns.
Return(rest) ==
    /\ Continue(rest)
    /\ UNCHANGED handle

Running(m) ==
    /\ gpc = "run"
    /\ todo # <<>>
    /\ Head(todo).m = m

\* np.array + np.array.
Add3(p, q) == <<p[1] + q[1], p[2] + q[2], p[3] + q[3]>>

\* Makergear.__init__(com, baud, printout): the serial port is opened and 21
\* lines are read (left: what the printer sends after them), or the path file
\* is opened and self.coord_sys is set.
Makergear(p, left) ==
    /\ printout = p
    /\ self_coord_sys = IF p = 1 THEN "method" ELSE "abs"
    /\ coords = <<0, 0, 0>>
    /\ channel_status = <<0, 0, 0>>
    /\ current_tool = 1
    /\ tool_coords = <<<<0, 0, 0>>, <<0, 0, 0>>, <<0, 0, 0>>>>
    /\ handle = [port |-> IF p = 1 THEN "serial" ELSE "file",
                 wire |-> <<>>,
                 rx |-> IF p = 1 THEN left ELSE <<>>,
                 answered |-> 0]
    /\ read = <<>>
    /\ todo = <<>>
    /\ called = <<>>
    /\ gpc = "idle"

\* path_vis(): the exception it raises, or "" when it draws the path.  Each
\* line of the path file is split at the blanks and its fourth field is read,
\* and a line written by arc has three; the arrays are given the shape
\* (len // 3, 3), and an array no line was appended to still has one row of
\* three, so that its new shape has no row.
path_vis ==
    IF self_coord_sys \in {"abs", "rel"}
    THEN IF \E i \in 1..Len(handle.wire) : Len(handle.wire[i][2]) < 4
         THEN "IndexError"
         ELSE IF handle.wire = <<>> THEN "ValueError" ELSE ""
    ELSE "ValueError"

\* close(): the port is closed, or the path file is closed and drawn.
close ==
    /\ Running("close")
    /\ handle' = [handle EXCEPT !.port = "closed"]
    /\ IF printout = 0 /\ path_vis # ""
       THEN Raise(path_vis)
       ELSE Continue(Tail(todo))
    /\ UNCHANGED <<printout, self_coord_sys, coords, channel_status, current_tool,
                   tool_coords, read, called>>
    /\ UNCHANGED GearOthers

\* move(x, y, z).
move ==
    /\ Running("move")
    /\ coords' = IF self_coord_sys = "abs" THEN Head(todo).a
                 ELSE IF self_coord_sys = "rel" THEN Add3(coords, Head(todo).a)
                 ELSE coords
    /\ IF printout = 1
       THEN Send(<<"G1">> \o Head(todo).a, Tail(todo))
       ELSE Record(Head(todo).a \o channel_status, Tail(todo))
    /\ UNCHANGED <<printout, self_coord_sys, channel_status, current_tool,
                   tool_coords, read, called>>
    /\ UNCHANGED GearOthers

\* speed(speed).
speed ==
    /\ Running("speed")
    /\ IF printout = 1
       THEN Send(<<"G1 F", Head(todo).a * 60>>, Tail(todo))
       ELSE Return(Tail(todo))
    /\ UNCHANGED <<printout, self_coord_sys, coords, channel_status, current_tool,
                   tool_coords, read, called>>
    /\ UNCHANGED GearOthers

\* rotate(speed).
rotate ==
    /\ Running("rotate")
    /\ IF printout = 1
       THEN Send(<<"M9", Head(todo).a>>, Tail(todo))
       ELSE Return(Tail(todo))
    /\ UNCHANGED <<printout, self_coord_sys, coords, channel_status, current_tool,
                   tool_coords, read, called>>
    /\ UNCHANGED GearOthers

\* The commands of ramp(start, stop, seconds), in the order of its loop.
RampCmds(start, stop, seconds) ==
    [n \in 1..(2 * Abs(stop - start)) |->
        IF n % 2 = 1
        THEN <<"M9", IF stop > start THEN start + ((n - 1) \div 2)
                     ELSE start - ((n - 1) \div 2)>>
        ELSE <<"G4", seconds, Abs(stop - start)>>]

\* The writes of ramp after its first, as statements still to run.
RampRest(start, stop, seconds) ==
    [n \in 1..(2 * Abs(stop - start) - 1) |->
        [m |-> "write", a |-> RampCmds(start, stop, seconds)[n + 1]]]

\* ramp(start, stop, seconds).
ramp ==
    /\ Running("ramp")
    /\ IF printout = 1 /\ Head(todo).a[1] # Head(todo).a[2]
       THEN Send(Head(RampCmds(Head(todo).a[1], Head(todo).a[2], Head(todo).a[3])),
                 RampRest(Head(todo).a[1], Head(todo).a[2], Head(todo).a[3])
                 \o Tail(todo))
       ELSE Return(Tail(todo))
    /\ UNCHANGED <<printout, self_coord_sys, coords, channel_status, current_tool,
                   tool_coords, read, called>>
    /\ UNCHANGED GearOthers

\* self.handle.write(...) after an earlier wait loop of the same method.
write ==
    /\ Running("write")
    /\ Send(Head(todo).a, Tail(todo))
    /\ UNCHANGED <<printout, self_coord_sys, coords, channel_status, current_tool,
                   tool_coords, read, called>>
    /\ UNCHANGED GearOthers

\* arc(x, y, z, i, j, direction): the argument is <<direction, x, y, z, i, j>>.
arc ==
    /\ Running("arc")
    /\ IF printout = 1
       THEN IF Head(todo).a[1] = "ccw"
            THEN Send(<<"G3">> \o Tail(Head(todo).a), Tail(todo))
            ELSE IF Head(todo).a[1] = "cw"
            THEN Send(<<"G2">> \o Tail(Head(todo).a), Tail(todo))
            ELSE Return(Tail(todo))
       ELSE Record(SubSeq(Head(todo).a, 2, 4), Tail(todo))
    /\ UNCHANGED <<printout, self_coord_sys, coords, channel_status, current_tool,
                   tool_coords, read, called>>
    /\ UNCHANGED GearOthers

\* wait(seconds): pflag is a global no statement of the module sets.
wait ==
    /\ Running("wait")
    /\ Raise("NameError")
    /\ UNCHANGED <<printout, self_coord_sys, coords, channel_status, current_tool,
                   tool_coords, handle, read, called>>
    /\ UNCHANGED GearOthers

AxisNames == <<"X", "Y", "Z">>

\* home(axes): axes is the argument split at the blanks.
home ==
    /\ Running("home")
    /\ coords' = [i \in 1..3 |->
                    IF \E k \in 1..Len(Head(todo).a) : Head(todo).a[k] = AxisNames[i]
                    THEN 0 ELSE coords[i]]
    /\ IF printout = 1
       THEN Send(<<"G28">> \o Head(todo).a, Tail(todo))
       ELSE Return(Tail(todo))
    /\ UNCHANGED <<printout, self_coord_sys, channel_status, current_tool,
                   tool_coords, read, called>>
    /\ UNCHANGED GearOthers

\* self.coord_sys(coord_sys): the call is of whatever self.coord_sys evaluates
\* to, the method of the class as long as no attribute of the object hides it.
coord_sys ==
    /\ Running("coord_sys")
    /\ IF self_coord_sys # "method"
       THEN /\ Raise("TypeError")
            /\ UNCHANGED <<self_coord_sys, handle>>
       ELSE /\ self_coord_sys' = Head(todo).a
            /\ IF printout = 1 /\ Head(todo).a \in {"abs", "rel"}
               THEN Send(IF Head(todo).a = "abs" THEN <<"G90">> ELSE <<"G91">>,
                         Tail(todo))
               ELSE Return(Tail(todo))
    /\ UNCHANGED <<printout, coords, channel_status, current_tool,
                   tool_coords, read, called>>
    /\ UNCHANGED GearOthers

\* set_current_coords(x, y, z).
set_current_coords ==
    /\ Running("set_current_coords")
    /\ coords' = Head(todo).a
    /\ IF printout = 1
       THEN Send(<<"G92">> \o Head(todo).a, Tail(todo))
       ELSE Return(Tail(todo))
    /\ UNCHANGED <<printout, self_coord_sys, channel_status, current_tool,
                   tool_coords, read, called>>
    /\ UNCHANGED GearOthers

\* allon(): self.prinout is no attribute of the object.
allon ==
    /\ Running("allon")
    /\ Raise("AttributeError")
    /\ UNCHANGED <<printout, self_coord_sys, coords, channel_status, current_tool,
                   tool_coords, handle, read, called>>
    /\ UNCHANGED GearOthers

\* alloff().
alloff ==
    /\ Running("alloff")
    /\ IF printout = 1
       THEN /\ Send(<<"M4">>, <<[m |-> "write", a |-> <<"M6">>],
                               [m |-> "write", a |-> <<"M8">>]>> \o Tail(todo))
            /\ UNCHANGED channel_status
       ELSE /\ channel_status' = <<0, 0, 0>>
            /\ Return(Tail(todo))
    /\ UNCHANGED <<printout, self_coord_sys, coords, current_tool,
                   tool_coords, read, called>>
    /\ UNCHANGED GearOthers

\* on(channel).
on ==
    /\ Running("on")
    /\ IF printout = 1
       THEN /\ Send(<<"M", Head(todo).a * 2 + 1>>, Tail(todo))
            /\ UNCHANGED channel_status
       ELSE /\ channel_status' = [channel_status EXCEPT ![Head(todo).a] = 1]
            /\ Return(Tail(todo))
    /\ UNCHANGED <<printout, self_coord_sys, coords, current_tool,
                   tool_coords, read, called>>
    /\ UNCHANGED GearOthers

\* off(channel).
off ==
    /\ Running("off")
    /\ IF printout = 1
       THEN /\ Send(<<"M", Head(todo).a * 2 + 2>>, Tail(todo))
            /\ UNCHANGED channel_status
       ELSE /\ channel_status' = [channel_status EXCEPT ![Head(todo).a] = 0]
            /\ Return(Tail(todo))
    /\ UNCHANGED <<printout, self_coord_sys, coords, current_tool,
                   tool_coords, read, called>>
    /\ UNCHANGED GearOthers

\* set_channel_delay(delay).
set_channel_delay ==
    /\ Running("set_channel_delay")
    /\ IF printout = 1
       THEN Send(<<"M50", Head(todo).a>>, Tail(todo))
       ELSE Return(Tail(todo))
    /\ UNCHANGED <<printout, self_coord_sys, coords, channel_status, current_tool,
                   tool_coords, read, called>>
    /\ UNCHANGED GearOthers

\* set_tool_coords(tool, x, y, z).
set_tool_coords ==
    /\ Running("set_tool_coords")
    /\ tool_coords' = [tool_coords EXCEPT ![Head(todo).a[1]] =
                            SubSeq(Head(todo).a, 2, 4)]
    /\ Continue(Tail(todo))
    /\ UNCHANGED <<printout, self_coord_sys, coords, channel_status, current_tool,
                   handle, read, called>>
    /\ UNCHANGED GearOthers

\* change_tool(change_to), up to its call of alloff.
change_tool ==
    /\ Running("change_tool")
    /\ IF printout = 1
       THEN /\ todo' = <<[m |-> "alloff", a |-> <<>>],
                         [m |-> "change_tool_save", a |-> Head(todo).a]>>
                       \o Tail(todo)
            /\ gpc' = "run"
       ELSE Continue(Tail(todo))
    /\ UNCHANGED <<printout, self_coord_sys, coords, channel_status, current_tool,
                   tool_coords, handle, read, called>>
    /\ UNCHANGED GearOthers

\* change_tool: old_coord_sys and old_coords are taken, coord_sys is called.
change_tool_save ==
    /\ Running("change_tool_save")
    /\ todo' = <<[m |-> "coord_sys", a |-> "rel"],
                 [m |-> "change_tool_move",
                  a |-> [change_to |-> Head(todo).a,
                         old_coord_sys |-> self_coord_sys,
                         old_coords |-> coords]]>>
               \o Tail(todo)
    /\ gpc' = "run"
    /\ UNCHANGED <<printout, self_coord_sys, coords, channel_status, current_tool,
                   tool_coords, handle, read, called>>
    /\ UNCHANGED GearOthers

\* change_tool: coord_change is computed, move is called.
change_tool_move ==
    /\ Running("change_tool_move")
    /\ todo' = <<[m |-> "move",
                  a |-> [i \in 1..3 |->
                            tool_coords[Head(todo).a.change_to][i]
                            - tool_coords[current_tool][i]]],
                 [m |-> "change_tool_restore", a |-> Head(todo).a]>>
               \o Tail(todo)
    /\ gpc' = "run"
    /\ UNCHANGED <<printout, self_coord_sys, coords, channel_status, current_tool,
                   tool_coords, handle, read, called>>
    /\ UNCHANGED GearOthers

\* change_tool: current_tool is set, coord_sys and set_current_coords are
\* called with the values taken before.
change_tool_restore ==
    /\ Running("change_tool_restore")
    /\ current_tool' = Head(todo).a.change_to
    /\ todo' = <<[m |-> "coord_sys", a |-> Head(todo).a.old_coord_sys],
                 [m |-> "set_current_coords", a |-> Head(todo).a.old_coords]>>
               \o Tail(todo)
    /\ gpc' = "run"
    /\ UNCHANGED <<printout, self_coord_sys, coords, channel_status,
                   tool_coords, handle, read, called>>
    /\ UNCHANGED GearOthers

\* read = self.handle.readline() and the test of the wait loop.
readline ==
    /\ gpc = "readline"
    /\ IF handle.rx = <<>>
       THEN /\ read' = <<>>
            /\ UNCHANGED handle
       ELSE /\ read' = Head(handle.rx)
            /\ handle' = [handle EXCEPT !.rx = Tail(@),
                                        !.wire = Append(@, <<"r", Head(handle.rx)>>)]
    /\ gpc' = IF is_ok(read')
              THEN (IF todo = <<>> THEN "idle" ELSE "run")
              ELSE "readline"
    /\ UNCHANGED <<printout, self_coord_sys, coords, channel_status, current_tool,
                   tool_coords, todo, called>>
    /\ UNCHANGED GearOthers

\* The printer answers the next thing written to the port.
Replies == {<<OkLine>>, <<EchoLine, OkTempLine>>}

printer ==
    /\ handle # <<>>
    /\ handle.port = "serial"
    /\ handle.answered < NumWrites(handle.wire)
    /\ \E reply \in Replies :
          handle' = [handle EXCEPT !.answered = @ + 1, !.rx = @ \o reply]
    /\ UNCHANGED <<printout, self_coord_sys, coords, channel_status, current_tool,
                   tool_coords, read, todo, called, gpc>>
    /\ UNCHANGED GearOthers

\* line.split(';')[0]: the characters before the first semicolon.
split_line_0(ln) ==
    IF \E i \in 1..Len(ln) : ln[i] = ";"
    THEN SubSeq(ln, 1, (CHOOSE i \in 1..Len(ln) :
                            /\ ln[i] = ";"
                            /\ \A j \in 1..(i - 1) : ln[j] # ";") - 1)
    ELSE ln

\* file_read(fid, com, baud): one turn of the loop over the lines of the
\* file, or the end of the loop and handle.close().
file_read ==
    /\ Running("file_read")
    /\ IF Head(todo).a = <<>>
       THEN /\ handle' = [handle EXCEPT !.port = "closed"]
            /\ todo' = <<>>
            /\ gpc' = "done"
       ELSE IF split_line_0(Head(Head(todo).a)) # <<>>
       THEN /\ handle' = Written(split_line_0(Head(Head(todo).a)) \o <<"\n">>)
            /\ Wait(<<[m |-> "file_read", a |-> Tail(Head(todo).a)]>>)
       ELSE /\ todo' = <<[m |-> "file_read", a |-> Tail(Head(todo).a)]>>
            /\ gpc' = "run"
            /\ UNCHANGED handle
    /\ UNCHANGED <<printout, self_coord_sys, coords, channel_status, current_tool,
                   tool_coords, read, called>>
    /\ UNCHANGED GearOthers

\* '{}\n'.format(cmd): the characters of the command typed, a sequence of
\* words <<first character, the characters after it>> that stand one blank
\* apart, and the end of the line.
RECURSIVE PromptLine(_)
PromptLine(cmd) ==
    IF cmd = <<>> THEN <<"\n">>
    ELSE (IF Head(cmd)[2] = "" THEN <<Head(cmd)[1]>> ELSE Head(cmd))
         \o (IF Tail(cmd) = <<>> THEN <<>> ELSE <<" ">>)
         \o PromptLine(Tail(cmd))

\* float(text) of the texts that are numbers; float raises ValueError on the
\* others.
PromptNumbers == [t \in {"1", "2"} |-> IF t = "1" THEN 1 ELSE 2]

\* prompt, lines 472-485: the loop over the words of the command.  A word
\* that starts with X, Y or Z and goes on adds what follows, as a number, to
\* the coordinate of that name.
RECURSIVE prompt_track(_, _)
prompt_track(cmd_split, pos) ==
    IF cmd_split = <<>> THEN [exc |-> "", pos |-> pos]
    ELSE LET a == Head(cmd_split)
         IN  IF a[1] \in {"X", "Y", "Z"} /\ a[2] # ""
             THEN IF a[2] \notin DOMAIN PromptNumbers
                  THEN [exc |-> "ValueError", pos |-> pos]
                  ELSE prompt_track(Tail(cmd_split),
                           [i \in 1..3 |->
                               IF AxisNames[i] = a[1]
                               THEN pos[i] + PromptNumbers[a[2]] ELSE pos[i]])
             ELSE prompt_track(Tail(cmd_split), pos)

\* prompt(com, baud), lines 452-460: the port is open, 'M17' is written and
\* x = y = z = 0.  The frame holds what the user will type and x, y, z.
prompt ==
    /\ Running("prompt")
    /\ handle' = Written(<<"M", "1", "7", "\n">>)
    /\ todo' = <<[m |-> "prompt_loop", a |-> <<Head(todo).a, <<0, 0, 0>>>>]>>
    /\ gpc' = "run"
    /\ UNCHANGED <<printout, self_coord_sys, coords, channel_status, current_tool,
                   tool_coords, read, called>>
    /\ UNCHANGED GearOthers

\* prompt, lines 461-486: one turn of the loop, with the next command typed.
\* The command is written without a read of the port before or after it.
prompt_loop ==
    /\ Running("prompt_loop")
    /\ Head(todo).a[1] # <<>>
    /\ LET cmd == Head(Head(todo).a[1])
           pos == IF cmd = <<<<"G", "28">>>> THEN <<0, 0, 0>> ELSE Head(todo).a[2]
           r == prompt_track(cmd, pos)
       IN  IF cmd = <<<<"e", "xit">>>>
           THEN /\ handle' = [handle EXCEPT !.port = "closed"]
                /\ todo' = <<>>
                /\ gpc' = "done"
           ELSE /\ handle' = Written(PromptLine(cmd))
                /\ IF r.exc # ""
                   THEN Raise(r.exc)
                   ELSE /\ todo' = <<[m |-> "prompt_loop",
                                      a |-> <<Tail(Head(todo).a[1]), r.pos>>]>>
                        /\ gpc' = "run"
    /\ UNCHANGED <<printout, self_coord_sys, coords, channel_status, current_tool,
                   tool_coords, read, called>>
    /\ UNCHANGED GearOthers

(***************************************************************************)
(* The states in which a component has not been called.                    *)
(***************************************************************************)
StitchIdle ==
    /\ lines = <<>>
    /\ obj = <<>>
    /\ map = EmptyMap
    /\ path = 0
    /\ paths = <<>>
    /\ spc = "idle"

DriverIdle ==
    /\ mesh = <<>>
    /\ minz = 0
    /\ maxz = 0
    /\ thickness = 0
    /\ maxz_facets = <<>>
    /\ z = 0
    /\ layer = 0
    /\ paths_all = <<>>
    /\ writer = <<>>
    /\ dpc = "idle"

ParseIdle ==
    /\ dev = <<>>
    /\ f = <<>>
    /\ line = <<>>
    /\ name = <<>>
    /\ facets = <<>>
    /\ facet = <<>>
    /\ ppc = "idle"
    /\ perr = ""

BinIdle ==
    /\ bsrc = <<>>
    /\ bstream = <<>>
    /\ count = 0
    /\ bi = 0
    /\ bfacets = <<>>
    /\ bpc = "idle"

ScaleIdle ==
    /\ sarg = <<>>
    /\ sret = <<>>
    /\ sret2 = <<>>
    /\ scpc = "idle"

GearIdle ==
    /\ printout = -1
    /\ self_coord_sys = ""
    /\ coords = <<>>
    /\ channel_status = <<>>
    /\ current_tool = 0
    /\ tool_coords = <<>>
    /\ handle = <<>>
    /\ read = <<>>
    /\ todo = <<>>
    /\ called = <<>>
    /\ gpc = "none"

(***************************************************************************)
(* SpecStitch: path_lines on its own, called with any sequence of at most  *)
(* MaxLines lines of LinePool.  The pool has the sides of a unit square    *)
(* and a diagonal, one side in both directions, a side whose endpoint is   *)
(* perturbed by 2^-40 (same key), a side that ends 2^-40 off the origin    *)
(* (another key) and a line whose two ends share a key.                    *)
(***************************************************************************)
PA  == <<0, 0>>
PA1 == <<1, 0>>
PB  == <<Unit(1), 0>>
PB1 == <<Unit(1) + 1, 0>>
PC  == <<Unit(1), Unit(1)>>
PD  == <<0, Unit(1)>>

LinePool ==
    { <<PA, PB>>, <<PB, PA>>, <<PB, PC>>, <<PB1, PC>>, <<PC, PD>>,
      <<PD, PA>>, <<PD, PA1>>, <<PC, PA>>, <<PB, PB1>> }

InitStitch ==
    /\ lines \in UNION { [1..n -> LinePool] : n \in 0..MaxLines }
    /\ obj = lines
    /\ map = LineMapInit(lines, 1, EmptyMap)
    /\ path = 0
    /\ paths = <<>>
    /\ spc = "take"
    /\ DriverIdle
    /\ ParseIdle
    /\ BinIdle
    /\ ScaleIdle
    /\ GearIdle

NextStitch == take_line \/ next_point \/ append_path \/ return_paths

SpecStitch == InitStitch /\ [][NextStitch]_vars

(***************************************************************************)
(* Spec: command_line on a cube or a tetrahedron.  The mesh is the cube    *)
(* with corners at 0 and side on each axis, as scale_to_fit returns it     *)
(* (all coordinates >= 0, minz = 0, maxz the highest Z); each of its six   *)
(* faces is split into two triangles; the four upright faces are split     *)
(* along either diagonal.  The tetrahedron has one edge on the ground, a   *)
(* corner half way up and a corner at the top, so that its facets end at   *)
(* different heights.  The mesh lies on the ground or under Z = -99999 in  *)
(* the file, and the driver gets what scale_to_fit with scale 1 makes of   *)
(* it.  The runs are those of at most MaxSteps steps of the plane inside   *)
(* the mesh, so that the layers' histories stay few.                       *)
(***************************************************************************)
P3(x, y, zz) == <<Unit(x), Unit(y), Unit(zz)>>

\* The four corners of each face, around the face.
CubeFaces(s) ==
    << <<P3(0, 0, 0), P3(s, 0, 0), P3(s, s, 0), P3(0, s, 0)>>,
       <<P3(0, 0, s), P3(s, 0, s), P3(s, s, s), P3(0, s, s)>>,
       <<P3(0, 0, 0), P3(s, 0, 0), P3(s, 0, s), P3(0, 0, s)>>,
       <<P3(0, s, 0), P3(s, s, 0), P3(s, s, s), P3(0, s, s)>>,
       <<P3(0, 0, 0), P3(0, s, 0), P3(0, s, s), P3(0, 0, s)>>,
       <<P3(s, 0, 0), P3(s, s, 0), P3(s, s, s), P3(s, 0, s)>> >>

FaceTriangles(c, d) ==
    IF d = 0 THEN << <<c[1], c[2], c[3]>>, <<c[1], c[3], c[4]>> >>
    ELSE << <<c[1], c[2], c[4]>>, <<c[2], c[3], c[4]>> >>

CubeMesh(s, diag) ==
    LET faces == CubeFaces(s)
        d(face) == IF face \in DOMAIN diag THEN diag[face] ELSE 0
    IN  [n \in 1..12 |-> FaceTriangles(faces[((n - 1) \div 2) + 1],
                                       d(((n - 1) \div 2) + 1))[((n - 1) % 2) + 1]]

Sides == {3, 8, 10}

\* The tetrahedron with corners at the heights 0, 0, s and 2s.
TetraMesh(s) ==
    LET A == P3(0, 0, 0)
        B == P3(2 * s, 0, 0)
        C == P3(0, 2 * s, s)
        D == P3(0, 0, 2 * s)
    IN  << <<A, B, C>>, <<A, B, D>>, <<A, C, D>>, <<B, C, D>> >>

TetraSides == {2, 3}

MeshMaxZ(fs) ==
    CHOOSE m \in {fs[i][j][Z] : i \in 1..Len(fs), j \in 1..3} :
        \A i \in 1..Len(fs), j \in 1..3 : fs[i][j][Z] <= m

\* bounding_cube on one axis: the minimum starts at 99999 and the maximum at
\* -99999, whatever the points are.
AxisLow(fs, ax) ==
    CHOOSE m \in {fs[i][j][ax] : i \in 1..Len(fs), j \in 1..3} \cup {Unit(99999)} :
        /\ \A i \in 1..Len(fs), j \in 1..3 : m <= fs[i][j][ax]
        /\ m <= Unit(99999)

AxisHigh(fs, ax) ==
    CHOOSE m \in {fs[i][j][ax] : i \in 1..Len(fs), j \in 1..3} \cup {Unit(-99999)} :
        /\ \A i \in 1..Len(fs), j \in 1..3 : m >= fs[i][j][ax]
        /\ m >= Unit(-99999)

\* scale_to_fit(facets, 0, 0, 1), the call of command_line with scale 1: the
\* facets it returns and the maxz it returns (its minz is 0).
scaled_facets(fs) ==
    [i \in 1..Len(fs) |->
        [j \in 1..3 |-> <<fs[i][j][X] - AxisLow(fs, X),
                          fs[i][j][Y] - AxisLow(fs, Y),
                          fs[i][j][Z] - AxisLow(fs, Z)>>]]

scaled_maxz(fs) == AxisHigh(fs, Z) - AxisLow(fs, Z)

\* The mesh as it is in the file: the cube or the tetrahedron at the depth d.
Sunk(fs, d) ==
    [i \in 1..Len(fs) |->
        [j \in 1..3 |-> <<fs[i][j][X], fs[i][j][Y], fs[i][j][Z] + Unit(d)>>]]

\* The depths of the meshes: on the ground, and under Z = -99999.
MeshDepths == {0, -200005}

Init ==
    /\ \E t \in 1..MaxThickness, d \in MeshDepths :
          /\ thickness = Unit(t)
          /\ \/ \E s \in Sides, diag \in [3..6 -> {0, 1}] :
                   /\ s <= MaxSteps * t
                   /\ mesh = scaled_facets(Sunk(CubeMesh(s, diag), d))
                   /\ maxz = scaled_maxz(Sunk(CubeMesh(s, diag), d))
             \/ \E s \in TetraSides :
                   /\ 2 * s <= MaxSteps * t
                   /\ mesh = scaled_facets(Sunk(TetraMesh(s), d))
                   /\ maxz = scaled_maxz(Sunk(TetraMesh(s), d))
    /\ minz = 0
    /\ maxz_facets = <<>>
    /\ z = 0
    /\ layer = 0
    /\ paths_all = <<>>
    /\ writer = <<>>
    /\ dpc = "start"
    /\ StitchIdle
    /\ ParseIdle
    /\ BinIdle
    /\ ScaleIdle
    /\ GearIdle

Next ==
    \/ open_writer
    \/ slice_layer
    \/ take_line
    \/ next_point
    \/ append_path
    \/ return_paths
    \/ write_layer
    \/ finish

Spec == Init /\ [][Next]_vars

(***************************************************************************)
(* SpecParse: parseText on a text mesh.  The stream is a well-formed text   *)
(* (a header, at most MaxFacets facet blocks, the closing line) with at    *)
(* most one deviation: one line replaced by a line of AltLines, one line   *)
(* deleted, or the text cut after some line.                               *)
(***************************************************************************)
Headers ==
    { <<"solid", Blank, "a">>,
      <<"solid", Blank, "a", Blank, Blank, "b">>,
      <<"solid">> }

FacetBlock ==
    << <<"facet", Blank, "normal">>,
       <<Blank, "outer", Blank, "loop">>,
       <<Blank, Blank, "vertex", Blank, "0", Blank, "0", Blank, "0">>,
       <<Blank, Blank, "vertex", Blank, "1", Blank, "0", Blank, "0">>,
       <<Blank, Blank, "vertex", Blank, "0", Blank, "1", Blank, "0">>,
       <<Blank, "endloop">>,
       <<"endfacet">> >>

\* The closing line of the grammar for a header: endsolid and the header's name.
ClosingOf(h) == <<"endsolid", Blank>> \o Join(Tail(Split(h)))

RECURSIVE Blocks(_)
Blocks(k) == IF k = 0 THEN <<>> ELSE FacetBlock \o Blocks(k - 1)

WellFormed(h, k) == <<h>> \o Blocks(k) \o <<ClosingOf(h)>>

AltLines ==
    { <<>>,
      <<"junk">>,
      <<"facet">>,
      <<"facets">>,
      <<"outer", Blank, "loop">>,
      <<"outer", Blank, Blank, "loop">>,
      <<"vertex">>,
      <<"vertex", Blank, "0", Blank, "1">>,
      <<"vertex", Blank, "0", Blank, "x", Blank, "1">>,
      <<"endloop">>,
      <<"endfacet">>,
      <<"endsolid">>,
      <<"endsolid", Blank, "a">>,
      <<"endsolid", Blank, "b">>,
      <<"endsolid", Blank, "a", Blank, Blank, "b">> }

Deviation(h, k, kind, pos, alt) ==
    [header |-> h, k |-> k, kind |-> kind, pos |-> pos, alt |-> alt]

Deviations ==
    LET n(k) == 2 + (7 * k)
    IN  UNION { UNION {
          {Deviation(h, k, "none", 0, <<>>)}
          \cup {Deviation(h, k, "replace", i, a) : i \in 2..n(k), a \in AltLines}
          \cup {Deviation(h, k, "delete", i, <<>>) : i \in 2..n(k)}
          \cup {Deviation(h, k, "cut", i, <<>>) : i \in 1..(n(k) - 1)}
          : k \in 0..MaxFacets } : h \in Headers }

\* The stream a deviation stands for.
StreamOf(d) ==
    LET text == WellFormed(d.header, d.k)
    IN  CASE d.kind = "none" -> text
          [] d.kind = "replace" -> [text EXCEPT ![d.pos] = d.alt]
          [] d.kind = "delete" -> RemoveAt(text, d.pos)
          [] d.kind = "cut" -> SubSeq(text, 1, d.pos)

InitParse ==
    /\ dev \in Deviations
    /\ f = StreamOf(dev)
    /\ line = <<>>
    /\ name = <<>>
    /\ facets = <<>>
    /\ facet = <<>>
    /\ ppc = "parseText"
    /\ perr = ""
    /\ StitchIdle
    /\ DriverIdle
    /\ BinIdle
    /\ ScaleIdle
    /\ GearIdle

NextParse ==
    \/ parse_header
    \/ read_facet_open
    \/ read_vertex
    \/ read_facet_close
    \/ parse_close

SpecParse == InitParse /\ [][NextParse]_vars

(***************************************************************************)
(* SpecBin: parseBin on a binary mesh.  The stream is the first bytes, any  *)
(* number of them, of an 80-byte header, a count of at most MaxCount and   *)
(* MaxCount facet records of 50 bytes: a normal, three points and the two  *)
(* attribute bytes.                                                        *)
(***************************************************************************)
PackI(n) == <<n % 256, (n \div 256) % 256, (n \div 65536) % 256, n \div 16777216>>
PackF(c) == IF c = 0 THEN <<0, 0, 0, 0>> ELSE <<0, 0, 128, 63>>
PackFFF(pt) == PackF(pt[1]) \o PackF(pt[2]) \o PackF(pt[3])

BinRecord ==
    Zeros(12) \o PackFFF(<<0, 0, 0>>) \o PackFFF(<<1, 0, 0>>) \o PackFFF(<<0, 1, 0>>)
    \o Zeros(2)

RECURSIVE BinRecords(_)
BinRecords(k) == IF k = 0 THEN <<>> ELSE BinRecord \o BinRecords(k - 1)

BinSource(c, len) == [count |-> c, len |-> len]
BinStreamOf(b) ==
    SubSeq(Zeros(80) \o PackI(b.count) \o BinRecords(MaxCount), 1, b.len)

InitBin ==
    /\ bsrc \in {BinSource(c, len) : c \in 0..MaxCount, len \in 0..(84 + (50 * MaxCount))}
    /\ bstream = BinStreamOf(bsrc)
    /\ count = 0
    /\ bi = 0
    /\ bfacets = <<>>
    /\ bpc = "parseBin"
    /\ StitchIdle
    /\ DriverIdle
    /\ ParseIdle
    /\ ScaleIdle
    /\ GearIdle

NextBin == bin_header \/ bin_facet \/ bin_return

SpecBin == InitBin /\ [][NextBin]_vars

(***************************************************************************)
(* SpecScale: scale_to_fit on a mesh, and once more on what it returned.   *)
(* The mesh is one facet that spans a box: the box has a corner at         *)
(* (ox, oy, oz) = (ox, ox, oz) and the extents ax, ay, az, any of which    *)
(* may be zero; some boxes lie under Z = -99999, and the boxes of          *)
(* ScaleHigh lie above Z = 99999 or above X = Y = 99999.  The width and    *)
(* the height are whole numbers; the scale is 2 or not given.              *)
(***************************************************************************)
ScaleExtents == {0, 10, 25}
ScaleHeights == {0, 5}
ScaleOrigins == {0, -3}
ScaleDepths == {0, -200005}
ScaleHigh == {<<100009, 0>>, <<0, 100009>>}
ScaleTargets == {7, 10, 40}
ScaleFactors == {0, 2}

BoxFacet(ox, oz, ax, ay, az) ==
    << <<F(ox), F(ox), F(oz)>>,
       <<F(ox + ax), F(ox), F(oz + az)>>,
       <<F(ox), F(ox + ay), F(oz)>> >>

ScaleArgs(fs, width, height, scale) ==
    [facets |-> fs, width |-> width, height |-> height, scale |-> scale]

InitScale ==
    /\ sarg \in {ScaleArgs(<<BoxFacet(ox, oz, ax, ay, az)>>, F(w), F(h), F(sc)) :
                   ox \in ScaleOrigins, oz \in ScaleDepths,
                   ax \in ScaleExtents, ay \in ScaleExtents, az \in ScaleHeights,
                   w \in ScaleTargets, h \in ScaleTargets, sc \in ScaleFactors}
               \cup
               {ScaleArgs(<<BoxFacet(o[1], o[2], 10, ay, 5)>>, F(w), F(h), F(sc)) :
                   o \in ScaleHigh, ay \in {10, 25},
                   w \in ScaleTargets, h \in ScaleTargets, sc \in ScaleFactors}
    /\ sret = NoResult
    /\ sret2 = NoResult
    /\ scpc = "call"
    /\ StitchIdle
    /\ DriverIdle
    /\ ParseIdle
    /\ BinIdle
    /\ GearIdle

NextScale == scale_call \/ scale_again

SpecScale == InitScale /\ [][NextScale]_vars

(***************************************************************************)
(* SpecSlice: slice_shape_at on one facet.  The facet is any three points  *)
(* of a grid (equal and collinear points included) and the plane any grid  *)
(* height.  X and Y are 0 or 6 units, a multiple of every Z difference of  *)
(* the grid, so that each crossing point is a whole number of units and    *)
(* the program's float arithmetic is exact.                                *)
(***************************************************************************)
SliceXY == {0, Unit(6)}
SliceZ == {Unit(h) : h \in 0..MaxSliceZ}
SlicePoints == {<<x, y, zz>> : x \in SliceXY, y \in SliceXY, zz \in SliceZ}

\* slice_shape_at(z_sort_facets(facets), z), the call of line 248 on its own.
slice_mesh ==
    /\ dpc = "slice_shape_at"
    /\ LET r == slice_shape_at(maxz_facets, z)
       IN  IF r.exc # ""
           THEN /\ dpc' = r.exc
                /\ UNCHANGED lines
           ELSE /\ dpc' = "sliced"
                /\ lines' = r.lines
    /\ UNCHANGED <<obj, map, path, paths, spc>>
    /\ UNCHANGED <<mesh, minz, maxz, thickness, maxz_facets, z, layer, paths_all, writer>>
    /\ UNCHANGED DriverOthers

InitSlice ==
    /\ mesh \in {<<tri>> : tri \in [1..3 -> SlicePoints]}
    /\ z \in SliceZ
    /\ maxz_facets = z_sort_facets(mesh)
    /\ minz = 0
    /\ maxz = 0
    /\ thickness = 0
    /\ layer = 0
    /\ paths_all = <<>>
    /\ writer = <<>>
    /\ dpc = "slice_shape_at"
    /\ StitchIdle
    /\ ParseIdle
    /\ BinIdle
    /\ ScaleIdle
    /\ GearIdle

NextSlice == slice_mesh

SpecSlice == InitSlice /\ [][NextSlice]_vars

(***************************************************************************)
(* SpecGear: a Makergear object in either printout mode, on which at most  *)
(* MaxCalls methods are called one after the other, or file_read on a file *)
(* of at most MaxFileLines lines.                                          *)
(***************************************************************************)
\* The calls the caller chooses from.
Calls ==
    <<[m |-> "move", a |-> <<1, 2, 3>>],
      [m |-> "move", a |-> <<-1, 0, 0>>],
      [m |-> "home", a |-> <<"X", "Y", "Z">>],
      [m |-> "home", a |-> <<"Z">>],
      [m |-> "coord_sys", a |-> "abs"],
      [m |-> "coord_sys", a |-> "rel"],
      [m |-> "set_current_coords", a |-> <<5, 5, 5>>],
      [m |-> "set_tool_coords", a |-> <<2, 10, 0, 0>>],
      [m |-> "on", a |-> 1],
      [m |-> "off", a |-> 1],
      [m |-> "allon", a |-> <<>>],
      [m |-> "alloff", a |-> <<>>],
      [m |-> "speed", a |-> 10],
      [m |-> "rotate", a |-> 5],
      [m |-> "ramp", a |-> <<0, 2, 1>>],
      [m |-> "ramp", a |-> <<1, 0, 1>>],
      [m |-> "arc", a |-> <<"ccw", 1, 2, 0, 1, 0>>],
      [m |-> "arc", a |-> <<"cw", 1, 2, 0, 1, 0>>],
      [m |-> "wait", a |-> 1],
      [m |-> "set_channel_delay", a |-> 50],
      [m |-> "change_tool", a |-> 2],
      [m |-> "close", a |-> <<>>]>>

\* The caller calls a method of the object.
call ==
    /\ gpc = "idle"
    /\ Len(called) < MaxCalls
    /\ \E k \in 1..Len(Calls) :
          /\ todo' = <<Calls[k]>>
          /\ called' = Append(called, Calls[k])
    /\ gpc' = "run"
    /\ UNCHANGED <<printout, self_coord_sys, coords, channel_status, current_tool,
                   tool_coords, handle, read>>
    /\ UNCHANGED GearOthers

\* The lines of a file: a command, a comment, a command with a comment.
FileLines == {<<"G", "\n">>, <<";", "c", "\n">>, <<"M", ";", "c", "\n">>}
GcodeFiles == UNION {[1..n -> FileLines] : n \in 0..MaxFileLines}

\* The commands typed at the prompt: a move, a homing, an axis letter alone,
\* an axis letter followed by something that is no number, and exit.
PromptCmds == {<<<<"G", "1">>, <<"X", "1">>, <<"Y", "2">>>>, <<<<"G", "28">>>>,
               <<<<"X", "">>>>, <<<<"Z", "Y">>>>, <<<<"e", "xit">>>>}
Typed == UNION {[1..n -> PromptCmds] : n \in 0..MaxTyped}

InitGear ==
    /\ StitchIdle
    /\ DriverIdle
    /\ ParseIdle
    /\ BinIdle
    /\ ScaleIdle
    /\ \/ \E p \in {0, 1}, left \in {<<>>, <<EchoLine>>} : Makergear(p, left)
       \/ /\ printout = -1
          /\ self_coord_sys = ""
          /\ coords = <<>>
          /\ channel_status = <<>>
          /\ current_tool = 0
          /\ tool_coords = <<>>
          /\ \E left \in {<<>>, <<EchoLine>>} :
                handle = [port |-> "serial", wire |-> <<>>, rx |-> left,
                          answered |-> 0]
          /\ read = <<>>
          /\ \/ \E gcode \in GcodeFiles :
                   todo = <<[m |-> "file_read", a |-> gcode]>>
             \/ \E typed \in Typed :
                   todo = <<[m |-> "prompt", a |-> typed]>>
          /\ called = todo
          /\ gpc = "run"

NextGear ==
    \/ call
    \/ close
    \/ move
    \/ speed
    \/ rotate
    \/ arc
    \/ wait
    \/ allon
    \/ off
    \/ set_channel_delay
    \/ ramp
    \/ write
    \/ home
    \/ coord_sys
    \/ set_current_coords
    \/ on
    \/ alloff
    \/ set_tool_coords
    \/ change_tool
    \/ change_tool_save
    \/ change_tool_move
    \/ change_tool_restore
    \/ readline
    \/ printer
    \/ file_read
    \/ prompt
    \/ prompt_loop

SpecGear == InitGear /\ [][NextGear]_vars

(***************************************************************************)
(*                              The claims                                 *)
(***************************************************************************)

\* The calls of write_layer_paths the driver has made, in order.
WriteCalls == SelectSeq(writer, LAMBDA c : c.op = "write_layer_paths")

\* The run of the scenario: the cube of side 10 sliced with thickness 5.
CubeScenario ==
    /\ mesh \in {CubeMesh(10, diag) : diag \in [3..6 -> {0, 1}]}
    /\ thickness = Unit(5)

P2(x, y) == <<Unit(x), Unit(y)>>
SquareCorners == {P2(0, 0), P2(10, 0), P2(10, 10), P2(0, 10)}
SquareMidpoints == {P2(5, 0), P2(10, 5), P2(5, 10), P2(0, 5)}

PointsOf(p) == {p[i] : i \in 1..Len(p)}
Closed(p) == key(p[1]) = key(p[Len(p)])

\* C1 (as claimed): the layer count passed to the writer when it is opened
\* is ceil((maxZ - minZ) / thickness).
C1_LayerCountIsCeil ==
    (writer # <<>>) => writer[1].layer = CeilDiv(maxz - minz, thickness)

\* C2 (as claimed): for the cube of side 10 and thickness 5 the driver
\* writes exactly two layers, at the heights 0 and 5.
C2_CubeTwoLayers ==
    (CubeScenario /\ dpc = "return") =>
        [i \in 1..Len(WriteCalls) |-> WriteCalls[i].z] = <<0, Unit(5)>>

\* C3 (as claimed): for the cube of side 10, the layers at the heights 0 and
\* 5 each hold exactly one path, closed, whose points are exactly the four
\* corners of the square.
C3_CubeSquareCorners ==
    CubeScenario =>
        \A i \in 1..Len(WriteCalls) :
            WriteCalls[i].z \in {0, Unit(5)} =>
                /\ Len(WriteCalls[i].paths) = 1
                /\ Closed(WriteCalls[i].paths[1])
                /\ PointsOf(WriteCalls[i].paths[1]) = SquareCorners

\* C3 (amended): for the cube of side 10, the layers at the heights 0 and 5
\* each hold exactly one path, closed and without a repeated point other
\* than its first and last; at height 0 its points are exactly the four
\* corners, at height 5 the four corners and the four midpoints of the
\* sides, where the plane crosses the diagonals of the upright faces.
C3_CubeSquarePaths ==
    CubeScenario =>
        \A i \in 1..Len(WriteCalls) :
            WriteCalls[i].z \in {0, Unit(5)} =>
                /\ Len(WriteCalls[i].paths) = 1
                /\ LET p == WriteCalls[i].paths[1]
                   IN  /\ Closed(p)
                       /\ Len(p) = Cardinality(PointsOf(p)) + 1
                       /\ PointsOf(p) = IF WriteCalls[i].z = 0 THEN SquareCorners
                                        ELSE SquareCorners \cup SquareMidpoints

\* C3 witness: the scenario's run has written the layers at heights 0 and 5.
C3_Witness ==
    /\ CubeScenario
    /\ \E i, j \in 1..Len(WriteCalls) :
          /\ WriteCalls[i].z = 0
          /\ WriteCalls[j].z = Unit(5)
          /\ Len(WriteCalls[j].paths[1]) = 9

\* The exceptions that can end path_lines.
StitchErrors == {"UnboundLocalError", "KeyError", "ValueError"}

\* No line of the input has two ends with the same key.
NonDegenerate(ls) == \A i \in 1..Len(ls) : key(ls[i][1]) # key(ls[i][2])

EndKeys(ls) == {key(ls[i][j]) : i \in 1..Len(ls), j \in 1..2}
Touching(ls, k) == {i \in 1..Len(ls) : k \in {key(ls[i][1]), key(ls[i][2])}}

\* Every endpoint key of the input is touched by exactly two lines.
Manifold(ls) == \A k \in EndKeys(ls) : Cardinality(Touching(ls, k)) = 2

\* C4: when every endpoint key of the input is touched by exactly two lines
\* and no line is degenerate, path_lines raises nothing and every path it
\* has emitted is closed: its first and last points have the same key.
C4_ManifoldPathsClosed ==
    (spc # "idle" /\ Manifold(lines) /\ NonDegenerate(lines)) =>
        /\ spc \notin StitchErrors
        /\ \A i \in 1..Len(paths) : Closed(obj[paths[i]])

\* C4 witness: path_lines has returned the paths of a manifold input of three
\* or more lines, one of which starts and ends at two different points with
\* the same key.
C4_Witness ==
    /\ spc = "return"
    /\ Len(lines) >= 3
    /\ Manifold(lines)
    /\ NonDegenerate(lines)
    /\ \E i \in 1..Len(paths) :
          obj[paths[i]][1] # obj[paths[i]][Len(obj[paths[i]])]

\* A line or a pair of consecutive points of a path, as the set of its keys.
SegKeys(p, q) == {key(p), key(q)}

InputCount(e) ==
    Cardinality({i \in 1..Len(lines) : SegKeys(lines[i][1], lines[i][2]) = e})

PathCount(e) ==
    Cardinality({ij \in {<<i, j>> : i \in 1..Len(paths), j \in 1..(MaxLines + 2)} :
                    /\ ij[2] < Len(obj[paths[ij[1]]])
                    /\ SegKeys(obj[paths[ij[1]]][ij[2]], obj[paths[ij[1]]][ij[2] + 1]) = e})

Conserved ==
    \A i \in 1..Len(lines) :
        LET e == SegKeys(lines[i][1], lines[i][2])
        IN  InputCount(e) = PathCount(e)

TotalSegments(ps) ==
    Cardinality({ij \in {<<i, j>> : i \in 1..Len(ps), j \in 1..(MaxLines + 2)} :
                    ij[2] < Len(obj[ps[ij[1]]])})

\* C5 (as claimed): for any input without degenerate lines path_lines
\* returns, and the pairs of consecutive points of the returned paths are
\* the input lines, each exactly once, so that the paths have as many
\* segments as the input has lines.
C5_SegmentsConserved ==
    (spc # "idle" /\ NonDegenerate(lines)) =>
        /\ spc \notin StitchErrors
        /\ spc = "return" => (Conserved /\ TotalSegments(paths) = Len(lines))

\* C6 (as claimed): when a path has just been emitted, no unconsumed line
\* touches the key of its first point or the key of its last point.
C6_PathsMaximal ==
    (spc = "take" /\ paths # <<>>) =>
        LET p == obj[paths[Len(paths)]]
        IN  /\ key(p[1]) \notin DOMAIN map
            /\ key(p[Len(p)]) \notin DOMAIN map

\* C16: on any input without degenerate lines, duplicate lines and keys
\* with more than two lines included, path_lines raises no error, and when
\* it returns the endpoint registry is empty.
C16_StitchRunsToCompletion ==
    (spc # "idle" /\ NonDegenerate(lines)) =>
        /\ spc \notin StitchErrors
        /\ spc = "return" => map = EmptyMap

\* The line object id is in the bucket of key k.
Registered(id, k) == k \in DOMAIN map /\ \E j \in 1..Len(map[k]) : map[k][j] = id

\* The lines consumed so far: the segments of the emitted paths and of the
\* path under construction.
ConsumedCount ==
    TotalSegments(paths) + (IF path = 0 THEN 0 ELSE Len(obj[path]) - 1)

\* C17: between two operations of the registry every line is registered
\* either in the buckets of both of its endpoint keys (not yet consumed) or
\* in neither (consumed), the lines registered are as many as the lines
\* not yet consumed, and no bucket is empty.
C17_RegistryInvariant ==
    spc \in {"take", "extend"} =>
        /\ \A id \in 1..Len(lines) :
               Registered(id, key(lines[id][1])) = Registered(id, key(lines[id][2]))
        /\ Cardinality({id \in 1..Len(lines) : Registered(id, key(lines[id][1]))})
               = Len(lines) - ConsumedCount
        /\ \A k \in DOMAIN map : map[k] # <<>>

(***************************************************************************)
(* The driver loop (Spec): pruning and the calls of the writer.            *)
(***************************************************************************)

\* How many times e is in the sequence.
Count(sq, e) == Cardinality({i \in 1..Len(sq) : sq[i] = e})

\* The two sequences hold the same elements the same number of times.
SameBag(a, b) ==
    /\ Len(a) = Len(b)
    /\ \A i \in 1..Len(a) : Count(a, a[i]) = Count(b, a[i])

\* The complete Z-sorted list and the facets the loop has dropped from it.
Sorted == z_sort_facets(mesh)
Dropped == SubSeq(Sorted, 1, Len(Sorted) - Len(maxz_facets))

\* The height of this layer and of the layers to come.
LaterHeights == {h \in {z + (k * thickness) : k \in 0..(MaxSteps + 1)} : h <= maxz}

\* slice_layer has just acted: path_lines has its lines and has not begun.
JustSliced == dpc = "path_lines" /\ spc = "take" /\ path = 0 /\ paths = <<>>

\* C18: when a layer has just been sliced, the candidate list is the
\* complete sorted list without a prefix, the lines sliced from it at z
\* are, as a multiset, the lines that the complete list gives at z, and no
\* dropped facet gives a line at z or at any later height.
C18_PruningIsSafe ==
    JustSliced =>
        /\ maxz_facets = SubSeq(Sorted, Len(Dropped) + 1, Len(Sorted))
        /\ SameBag(lines, slice_shape_at(Sorted, z).lines)
        /\ \A i \in 1..Len(Dropped) : \A h \in LaterHeights :
               slice_shape_at(<<Dropped[i]>>, h).lines = <<>>

\* C18 witness: a layer with lines has been sliced after a facet that rises
\* above the ground was dropped.
C18_Witness ==
    /\ JustSliced
    /\ lines # <<>>
    /\ \E i \in 1..Len(Dropped) : Dropped[i][1] > 0

\* The points of the paths, and the ends of the lines.
PathPoints(ps) == UNION {PointsOf(ps[i]) : i \in 1..Len(ps)}
LineEnds(ls) == UNION {PointsOf(ls[i]) : i \in 1..Len(ls)}

\* C19: the first call of the writer is the one that opens it and no later
\* call opens it; the k-th call after it, if it writes a layer, has the
\* layer index k and the height minZ + (k - 1) * thickness, and the paths
\* just written run through the ends of the lines sliced at that height;
\* finish is called only when the loop is over, as the last call, and has
\* been called when command_line returns.
C19_WriterProtocol ==
    /\ dpc = "start" => writer = <<>>
    /\ dpc \notin {"start", "idle"} =>
           /\ writer # <<>>
           /\ writer[1].op = "open"
           /\ \A i \in 2..Len(writer) :
                  /\ writer[i].op \in {"write_layer_paths", "finish"}
                  /\ writer[i].op = "write_layer_paths" =>
                         /\ writer[i].layer = i - 1
                         /\ writer[i].z = minz + ((i - 2) * thickness)
                  /\ writer[i].op = "finish" =>
                         /\ i = Len(writer)
                         /\ dpc \in {"return", "IndexError"}
           /\ dpc = "return" => writer[Len(writer)].op = "finish"
           /\ (dpc = "loop" /\ writer[Len(writer)].op = "write_layer_paths") =>
                  LET c == writer[Len(writer)]
                  IN  PathPoints(c.paths) = LineEnds(slice_shape_at(Sorted, c.z).lines)

\* C19 witness: command_line has returned after three layers or more, one
\* of them with a path.
C19_Witness ==
    /\ dpc = "return"
    /\ Len(WriteCalls) >= 3
    /\ writer[Len(writer)].op = "finish"
    /\ \E i \in 1..Len(WriteCalls) : WriteCalls[i].paths # <<>>

\* The facets of the list that the plane at zz cuts at two points with the
\* same key.
SameKeyCuts(ifacets, zz) ==
    {i \in 1..Len(ifacets) :
        LET ab == tri_above_below(ifacets[i][3], zz)
            ps == PairsOf(ab.above, ab.below)
        IN  /\ ifacets[i][2] <= zz
            /\ Len(ps) = 2
            /\ key(find_line_plane_intersection(ps[1][1], ps[1][2], zz))
                 = key(find_line_plane_intersection(ps[2][1], ps[2][2], zz))}

\* C20: while path_lines works on the lines of a layer, no line that
\* slice_shape_at handed over has two ends with the same key, and every
\* line in the registry, looked up under the key of its bucket, has a point
\* with another key, so that _pop_other_line finds its other point.
C20_NoSameKeySegment ==
    dpc = "path_lines" =>
        /\ NonDegenerate(lines)
        /\ spc # "UnboundLocalError"
        /\ \A k \in DOMAIN map : \A j \in 1..Len(map[k]) :
               \E i \in 1..Len(obj[map[k][j]]) : key(obj[map[k][j]][i]) # k

\* C20 witness: the stitcher is extending a path in a layer where the
\* plane cut a facet at two points with the same key.
C20_Witness ==
    /\ dpc = "path_lines"
    /\ spc = "extend"
    /\ Len(obj[path]) >= 3
    /\ SameKeyCuts(maxz_facets, z) # {}

(***************************************************************************)
(* The plane slicer on one facet (SpecSlice).                              *)
(***************************************************************************)

\* The facet sliced and the positions of its points above the plane.
Tri == mesh[1]
AboveIdx == {i \in 1..3 : Tri[i][Z] > z}
BelowIdx == {i \in 1..3 : Tri[i][Z] <= z}
Sliced == dpc # "slice_shape_at"

\* C7: a facet whose three points are all strictly above the plane, or all
\* at or below it, is sliced without an exception and gives no segment.
C7_OffPlaneNoSegment ==
    (Sliced /\ (AboveIdx = {} \/ BelowIdx = {})) =>
        /\ dpc = "sliced"
        /\ lines = <<>>

\* C7 witness: a facet has been sliced that has a point on the plane, a
\* point under it and none above it.
C7_Witness ==
    /\ dpc = "sliced"
    /\ AboveIdx = {}
    /\ \E i, j \in 1..3 : Tri[i][Z] = z /\ Tri[j][Z] < z
    /\ lines = <<>>

\* The facet has exactly one point on one side of the plane.
Crossing == Cardinality(AboveIdx) \in {1, 2}

\* C8 (as claimed): a facet with exactly one point on one side of the plane
\* gives exactly one segment.
C8_CrossingOneSegment ==
    (Sliced /\ Crossing) => (dpc = "sliced" /\ Len(lines) = 1)

\* The two edges of a crossing facet that the plane cuts, each from its point
\* above to its point below, in the order of the facet's points.
First(S) == CHOOSE i \in S : \A j \in S : i <= j
Last(S) == CHOOSE i \in S : \A j \in S : i >= j
CutEdges ==
    IF Cardinality(AboveIdx) = 1
    THEN << <<Tri[First(AboveIdx)], Tri[First(BelowIdx)]>>,
            <<Tri[First(AboveIdx)], Tri[Last(BelowIdx)]>> >>
    ELSE << <<Tri[First(AboveIdx)], Tri[First(BelowIdx)]>>,
            <<Tri[Last(AboveIdx)], Tri[First(BelowIdx)]>> >>

\* p is the point of the edge e = <<a, b>> at the height of the plane: it
\* divides the edge as z divides the edge's heights.
OnEdge(p, e) ==
    LET a == e[1]
        b == e[2]
    IN  /\ (p[X] - b[X]) * (a[Z] - b[Z]) = (z - b[Z]) * (a[X] - b[X])
        /\ (p[Y] - b[Y]) * (a[Z] - b[Z]) = (z - b[Z]) * (a[Y] - b[Y])

\* The 2-D points a cut of the grid's facets can be.
CutPoints == {<<x, y>> : x \in 0..Unit(6), y \in 0..Unit(6)}
Cuts(e) == {p \in CutPoints : OnEdge(p, e)}

\* C8 (amended): a facet with exactly one point on one side of the plane is
\* sliced without an exception and gives either exactly one segment, whose
\* two points are the cuts of the two edges that cross the plane and have
\* different keys, or, when the two cuts have the same key, no segment.
C8_CrossingOneSegmentOrDegenerate ==
    (Sliced /\ Crossing) =>
        /\ dpc = "sliced"
        /\ \/ /\ Len(lines) = 1
              /\ Len(lines[1]) = 2
              /\ lines[1][1] \in Cuts(CutEdges[1])
              /\ lines[1][2] \in Cuts(CutEdges[2])
              /\ key(lines[1][1]) # key(lines[1][2])
           \/ /\ lines = <<>>
              /\ \E p \in Cuts(CutEdges[1]), q \in Cuts(CutEdges[2]) : key(p) = key(q)

\* C8 witness: a facet with two points above the plane and the third under
\* it has been sliced and has given one segment.
C8_Witness ==
    /\ dpc = "sliced"
    /\ Cardinality(AboveIdx) = 2
    /\ \E i \in 1..3 : Tri[i][Z] < z
    /\ Len(lines) = 1

(***************************************************************************)
(* The text mesh loader (SpecParse).                                       *)
(***************************************************************************)

ParseDone == ppc \in {"return", "ValueError", "IndexError"}

\* The number of lines of the well-formed text a deviation starts from, and
\* the place of a line in its facet block: 1 the facet line, 2 'outer loop',
\* 3 to 5 the vertices, 6 'endloop', 7 'endfacet'.
TextLen(d) == 2 + (7 * d.k)
PlaceInBlock(pos) == ((pos - 2) % 7) + 1

\* The name as the header line spells it: what follows the word 'solid'.
HeaderName(h) == LStrip(Tail(Strip(h)))

\* The stream has no closing line, or a closing line other than 'endsolid'
\* and the header's name, the rest of the text being well formed.
ClosingMissing(d) ==
    \/ d.kind = "cut" /\ d.pos = TextLen(d) - 1
    \/ d.kind = "delete" /\ d.pos = TextLen(d)

ClosingWrong(d) ==
    /\ d.kind = "none" \/ (d.kind = "replace" /\ d.pos = TextLen(d))
    /\ StreamOf(d)[TextLen(d)] # <<"endsolid", Blank>> \o HeaderName(d.header)

\* C9 (as claimed): a text whose closing line is missing, or is not exactly
\* 'endsolid' and the header's name, ends parseText with the ValueError that
\* names the expected 'endsolid <name>', and no facet list is returned.
C9_BadClosingRejected ==
    (ParseDone /\ (ClosingMissing(dev) \/ ClosingWrong(dev))) =>
        (ppc = "ValueError" /\ perr = "endsolid")

\* The deviations from the grammar: a wrong line where 'outer loop',
\* 'endfacet' or the closing line is expected, a line inside the loop that
\* does not start with 'vertex' (the empty line included), and the end of
\* the input inside a facet block.
WrongKeyword(d) ==
    /\ d.kind = "replace"
    /\ \/ d.pos = TextLen(d) /\ Strip(d.alt) # ClosingOf(d.header)
       \/ /\ d.pos < TextLen(d)
          /\ PlaceInBlock(d.pos) = 2
          /\ Strip(d.alt) # <<"outer", Blank, "loop">>
       \/ /\ d.pos < TextLen(d)
          /\ PlaceInBlock(d.pos) = 7
          /\ Strip(d.alt) # <<"endfacet">>

NotAVertex(d) ==
    /\ d.kind = "replace"
    /\ d.pos < TextLen(d)
    /\ PlaceInBlock(d.pos) \in 3..5
    /\ Strip(d.alt) # <<"endloop">>
    /\ Split(d.alt) = <<>> \/ Split(d.alt)[1] # "vertex"

EndInsideBlock(d) ==
    /\ d.kind = "cut"
    /\ d.pos >= 2
    /\ PlaceInBlock(d.pos) \in 1..6

\* C10 (as claimed): every such deviation ends the parse with the parser's
\* ValueError, never with another exception and never with a returned mesh.
C10_DeviationsAreValueErrors ==
    (ParseDone /\ (WrongKeyword(dev) \/ NotAVertex(dev) \/ EndInsideBlock(dev))) =>
        ppc = "ValueError"

(***************************************************************************)
(* The binary mesh loader (SpecBin).                                       *)
(***************************************************************************)

BinDone == bpc \in {"return", "struct.error"}

\* The bytes of a stream with the prefix and count full records.
FullLen(c) == 84 + (50 * c)

\* C11 (as claimed): parseBin returns exactly count facets when the stream
\* holds the 84-byte prefix and count full 50-byte records, and ends in
\* struct.error for every shorter stream, a stream cut inside the last
\* record's two attribute bytes included.
C11_ExactOrTruncated ==
    BinDone =>
        IF bsrc.len >= FullLen(bsrc.count)
        THEN bpc = "return" /\ Len(bfacets) = bsrc.count
        ELSE bpc = "struct.error"

(***************************************************************************)
(* Claims on scale_to_fit, under SpecScale.                                *)
(***************************************************************************)

\* scale_to_fit has been called and is over.
ScaleCalled == scpc \notin {"idle", "call"}

\* The first call returned a tuple.
ScaleReturned == ScaleCalled /\ sret.exc = ""

\* The coordinates that the points of the facets have on an axis.
Coords(fs, axis) == {fs[i][j][axis] : i \in DOMAIN fs, j \in 1..3}

Greatest(S) == CHOOSE a \in S : \A b \in S : FLessEq(b, a)

Least(S) == CHOOSE a \in S : \A b \in S : FLessEq(a, b)

\* The extent of the bounding box of the facets on an axis.
Extent(fs, axis) == FSub(Greatest(Coords(fs, axis)), Least(Coords(fs, axis)))

ZeroExtent(fs) == \E axis \in {X, Y, Z} : Cardinality(Coords(fs, axis)) = 1

\* C12: when the bounding box of the facets has zero extent on the X, the Y
\* or the Z axis, scale_to_fit raises its error and returns no facets,
\* with a width and height as well as with a scale.
C12_ZeroExtentIsError ==
    (ScaleCalled /\ ZeroExtent(sarg.facets)) =>
        (sret.exc = "ZeroDivisionError" /\ sret.facets = <<>>)

\* The scale keeps the scaled extents within the width and the height.
Fits(sc, xsize, ysize, width, height) ==
    FLessEq(FMul(sc, xsize), width) /\ FLessEq(FMul(sc, ysize), height)

\* C13: with no scale given, the extents of the scaled facets are within
\* the width and height that scale_to_fit settled on, and the scale is the
\* larger of width / xsize and height / ysize when the larger one fits and
\* the smaller one when it does not.
C13_ChosenScaleFits ==
    (ScaleReturned /\ sarg.scale = FZero) =>
        LET xsize == Extent(sarg.facets, X)
            ysize == Extent(sarg.facets, Y)
            cx == FDiv(sret.width, xsize)
            cy == FDiv(sret.height, ysize)
            larger == IF FLess(cx, cy) THEN cy ELSE cx
            smaller == IF FLess(cx, cy) THEN cx ELSE cy
        IN  /\ FLessEq(Extent(sret.facets, X), sret.width)
            /\ FLessEq(Extent(sret.facets, Y), sret.height)
            /\ sret.scale = IF Fits(larger, xsize, ysize, sret.width, sret.height)
                            THEN larger ELSE smaller

\* C14: the facets returned have no negative coordinate, the minZ returned
\* is 0 and the maxZ returned is the largest Z among the returned points.
C14_OutputInPositiveOctant ==
    ScaleReturned =>
        /\ \A axis \in {X, Y, Z} : \A c \in Coords(sret.facets, axis) : FLessEq(FZero, c)
        /\ sret.minz = FZero
        /\ sret.maxz = Greatest(Coords(sret.facets, Z))

\* scale_to_fit has been applied to what it returned.
ScaleAgain == scpc \in {"returned again", "ZeroDivisionError again"}

\* C15: scale_to_fit applied to the facets it returned, with the X and Y
\* extents of their bounding cube as width and height, returns, and returns
\* the width, height, minZ, maxZ and facets that the first call returned.
C15_SecondCallSameTuple ==
    ScaleAgain =>
        /\ sret2.exc = ""
        /\ sret2.width = sret.width
        /\ sret2.height = sret.height
        /\ sret2.minz = sret.minz
        /\ sret2.maxz = sret.maxz
        /\ sret2.facets = sret.facets

(***************************************************************************)
(* Claims on the facets the loaders return.                                *)
(***************************************************************************)

\* C21: when parseText returns, every facet it returns has exactly three
\* vertices (parseBin appends three points per record by construction).
C21_FacetsHaveThreeVertices ==
    ppc = "return" => \A i \in 1..Len(facets) : Len(facets[i]) = 3

(* Claims on the calls slice_shape_at makes. *)
\* The pairs (a, b) slice_shape_at hands to find_line_plane_intersection for
\* the facets of the candidate list at the height z.
CutPairs ==
    UNION {{PairsOf(tri_above_below(maxz_facets[i][3], z).above,
                    tri_above_below(maxz_facets[i][3], z).below)[n] :
                n \in 1..(Len(tri_above_below(maxz_facets[i][3], z).above)
                           * Len(tri_above_below(maxz_facets[i][3], z).below))} :
           i \in 1..Len(maxz_facets)}

\* C22: every call of find_line_plane_intersection made by slice_shape_at has
\* a.Z > z >= b.Z, so its divisor a.Z - b.Z is strictly positive and the slice
\* never ends in a division by zero.
C22_DivisorPositive ==
    /\ dpc # "ZeroDivisionError"
    /\ dpc \in {"slice_shape_at", "sliced"} =>
           \A pr \in CutPairs :
               /\ pr[1][Z] > z
               /\ z >= pr[2][Z]
               /\ pr[1][Z] - pr[2][Z] > 0

\* A facet crossing the plane has been sliced into a segment, one of the calls
\* having its lower point on the plane.
C22_Witness ==
    /\ dpc = "sliced"
    /\ lines # <<>>
    /\ \E pr \in CutPairs : pr[2][Z] = z

(* Claims on the printer control. *)
\* A line that starts with ok.
AckLine(l) == Len(l) >= 2 /\ l[1] = "o" /\ l[2] = "k"

\* The commands written to the port so far, in the order of the writes.
RECURSIVE WritesFrom(_)
WritesFrom(i) ==
    IF i > Len(handle.wire) THEN <<>>
    ELSE (IF handle.wire[i][1] = "w" THEN <<handle.wire[i][2]>> ELSE <<>>)
         \o WritesFrom(i + 1)

\* The commands of the lines of a file, in file order.
RECURSIVE FileCmds(_)
FileCmds(gcode) ==
    IF gcode = <<>> THEN <<>>
    ELSE (IF Head(gcode)[1] = ";" THEN <<>>
          ELSE <<split_line_0(Head(gcode)) \o <<"\n">>>>)
         \o FileCmds(Tail(gcode))

\* The commands a call sends in serial mode, in the order of its statements
\* (of change_tool: those of its first step, which turns the channels off).
CmdsOf(c) ==
    IF c.m = "move" THEN <<<<"G1">> \o c.a>>
    ELSE IF c.m = "home" THEN <<<<"G28">> \o c.a>>
    ELSE IF c.m = "coord_sys" THEN <<IF c.a = "abs" THEN <<"G90">> ELSE <<"G91">>>>
    ELSE IF c.m = "set_current_coords" THEN <<<<"G92">> \o c.a>>
    ELSE IF c.m = "on" THEN <<<<"M", 2 * c.a + 1>>>>
    ELSE IF c.m = "off" THEN <<<<"M", 2 * c.a + 2>>>>
    ELSE IF c.m = "speed" THEN <<<<"G1 F", 60 * c.a>>>>
    ELSE IF c.m = "rotate" THEN <<<<"M9", c.a>>>>
    ELSE IF c.m = "set_channel_delay" THEN <<<<"M50", c.a>>>>
    ELSE IF c.m = "arc"
         THEN <<<<IF c.a[1] = "ccw" THEN "G3" ELSE "G2">> \o Tail(c.a)>>
    ELSE IF c.m \in {"alloff", "change_tool"} THEN <<<<"M4">>, <<"M6">>, <<"M8">>>>
    ELSE IF c.m = "ramp"
         THEN [n \in 1..(2 * Abs(c.a[2] - c.a[1])) |->
                  IF n % 2 = 0 THEN <<"G4", c.a[3], Abs(c.a[2] - c.a[1])>>
                  ELSE IF c.a[1] < c.a[2] THEN <<"M9", c.a[1] + (n - 1) \div 2>>
                  ELSE <<"M9", c.a[1] - (n - 1) \div 2>>]
    ELSE IF c.m = "file_read" THEN FileCmds(c.a)
    ELSE <<>>

\* The commands of the calls made, up to the first change_tool and to the
\* first call that raised (allon, wait, and any call after close).
RECURSIVE CmdsFrom(_)
CmdsFrom(i) ==
    IF i > Len(called) \/ called[i].m \in {"allon", "wait", "close"} THEN <<>>
    ELSE CmdsOf(called[i])
         \o (IF called[i].m = "change_tool" THEN <<>> ELSE CmdsFrom(i + 1))

\* The session is one of prompt, which is neither file_read nor a method of
\* Makergear.
AtPrompt == called # <<>> /\ called[1].m = "prompt"

ToolChanged == \E i \in 1..Len(called) : called[i].m = "change_tool"

\* C23: on the serial port of file_read and of a Makergear object, between
\* any two commands written a line starting
\* with ok has been read, so that at most one command is unacknowledged, and
\* the commands written are those of the calls (of the file's lines) in order.
C23_OneCommandInFlight ==
    (gpc # "none" /\ printout # 0 /\ ~AtPrompt) =>
        /\ \A i \in 1..Len(handle.wire) : \A j \in (i + 1)..Len(handle.wire) :
              (handle.wire[i][1] = "w" /\ handle.wire[j][1] = "w") =>
                  \E k \in (i + 1)..(j - 1) :
                      /\ handle.wire[k][1] = "r"
                      /\ AckLine(handle.wire[k][2])
        /\ LET sent == WritesFrom(1)
               due == CmdsFrom(1)
           IN  /\ \A n \in 1..Len(sent) :
                     IF n <= Len(due) THEN sent[n] = due[n] ELSE ToolChanged
               /\ gpc \in {"idle", "done"} /\ ~ToolChanged => Len(sent) = Len(due)

\* A second command has been written after the printer answered the first
\* with a line of chatter and then a line starting with ok.
C23_Witness ==
    /\ gpc # "none"
    /\ handle.port = "serial"
    /\ Len(WritesFrom(1)) >= 2
    /\ \E k \in 1..Len(handle.wire) : handle.wire[k] = <<"r", EchoLine>>

\* The calls made are calls of coord_sys, move, home and set_current_coords.
MotionCallsOnly ==
    \A i \in 1..Len(called) :
        called[i].m \in {"coord_sys", "move", "home", "set_current_coords"}

\* The position the calls from the i-th on imply, from the position pos in
\* the coordinate system mode.
RECURSIVE ImpliedFrom(_, _, _)
ImpliedFrom(i, pos, mode) ==
    IF i > Len(called) THEN pos
    ELSE IF called[i].m = "coord_sys" THEN ImpliedFrom(i + 1, pos, called[i].a)
    ELSE IF called[i].m = "move"
         THEN ImpliedFrom(i + 1, IF mode = "abs" THEN called[i].a
                                 ELSE Add3(pos, called[i].a), mode)
    ELSE IF called[i].m = "home"
         THEN ImpliedFrom(i + 1,
                          [k \in 1..3 |->
                              IF \E n \in 1..Len(called[i].a) :
                                     called[i].a[n] = AxisNames[k]
                              THEN 0 ELSE pos[k]], mode)
    ELSE ImpliedFrom(i + 1, called[i].a, mode)

\* C24: after any sequence of coord_sys, move, home and set_current_coords
\* calls, in either printout mode, the calls have returned without an error
\* and the stored coordinates are the position the calls imply, the
\* coordinate system being absolute until coord_sys is called.
C24_CoordsFollowCalls ==
    (printout \in {0, 1} /\ MotionCallsOnly /\ gpc \in {"idle", "TypeError"}) =>
        /\ gpc = "idle"
        /\ coords = ImpliedFrom(1, <<0, 0, 0>>, "abs")

\* C25: in serial mode a call of change_tool(t) returns without an error and
\* then current_tool = t and all channels are off; called on a new object it
\* leaves the coordinate system and the stored coordinates as they were.
C25_ChangeToolCompletes ==
    (/\ printout = 1
     /\ called # <<>>
     /\ called[Len(called)].m = "change_tool"
     /\ gpc \in {"idle", "TypeError"}) =>
        /\ gpc = "idle"
        /\ current_tool = called[Len(called)].a
        /\ channel_status = <<0, 0, 0>>
        /\ Len(called) = 1 => (coords = <<0, 0, 0>> /\ self_coord_sys = "method")

(* Claims on the layers the driver writes and returns. *)
\* C26: when command_line returns, the number of write_layer_paths calls it
\* made is the layer count it passed to the writer when opening it.
C26_WrittenIsAnnounced ==
    dpc = "return" => Len(WriteCalls) = writer[1].layer

\* C27: at every pass of the driver's loop (z <= maxz) the candidate list
\* holds a facet whose max Z is at least z, so that the pruning cursor stops
\* inside the list.
C27_CursorInRange ==
    (dpc = "loop" /\ z <= maxz) =>
        \E i \in 1..Len(maxz_facets) : maxz_facets[i][1] >= z

\* C28: the list command_line returns is the paths of the layers written, in
\* layer order, without those of the first layer: it has one entry less than
\* there are layers written and its k-th entry is the paths of layer k + 1.
C28_ReturnedIsWrittenButFirst ==
    dpc = "return" =>
        /\ Len(paths_all) = Len(WriteCalls) - 1
        /\ \A k \in 1..Len(paths_all) :
              /\ WriteCalls[k + 1].layer = k + 1
              /\ paths_all[k] = WriteCalls[k + 1].paths

\* command_line has returned the paths of two layers or more, which are not
\* the paths of the layers written without the last.
C28_Witness ==
    /\ dpc = "return"
    /\ Len(paths_all) >= 2
    /\ paths_all[1] # <<>>
    /\ paths_all # [k \in 1..Len(paths_all) |-> WriteCalls[k].paths]

====
